---- MODULE Spec2Model ----
(***************************************************************************)
(* DocuDots: extraction of a document outline (title + H1/H2/H3 headings)  *)
(* from the text spans of a PDF.  Two pipelines are modelled:              *)
(*   - the script pipeline, src/src/main.py (PDFStructureAnalyzer)         *)
(*   - the module pipeline, src/docudots_module/core.py (PDFAnalyzer)      *)
(*                                                                         *)
(* Texts are sequences of one-character strings, so that the string        *)
(* operations of the source (lower, strip, split, isupper, regex matches)  *)
(* are computed, not assumed.  Lengths (font sizes, coordinates) are       *)
(* integers: raw span values in thousandths of a point, values rounded by  *)
(* round(v, 2) in hundredths of a point.  Ratios and the fractional filter *)
(* score are compared by cross-multiplication, exactly.                    *)
(***************************************************************************)
EXTENDS Integers, Sequences, FiniteSets, TLC

(***************************************************************************)
(* Bounds of the exploration.                                              *)
(***************************************************************************)
\* number of individually chosen spans of a document
MaxBlocks == 3
\* number of individually chosen spans of a document with a repetition
MaxExtra == 3
\* length of the short repetition of one span (the body paragraphs of the
\* documented scenario)
BodyRun == 50
\* length of the long repetition of one span
MaxRun == 51
\* number of pipeline runs over the same text blocks
MaxRuns == 2

(***************************************************************************)
(* Characters and the string operations the source uses.                   *)
(***************************************************************************)

UpperChars == <<"A","B","C","D","E","F","G","H","I","J","K","L","M","N","O","P","Q","R","S","T","U","V","W","X","Y","Z">>
LowerChars == <<"a","b","c","d","e","f","g","h","i","j","k","l","m","n","o","p","q","r","s","t","u","v","w","x","y","z">>
Digits == {"0","1","2","3","4","5","6","7","8","9"}
\* the whitespace of str.strip, str.split and the regex class \s that occurs
\* in the modelled texts
Whitespace == {" "}

\* a list built by a comprehension, as an explicit sequence
List(f) == f \o <<>>

SeqMax(S) == CHOOSE m \in S : \A k \in S : k <= m
SeqMin(S) == CHOOSE m \in S : \A k \in S : m <= k

IsUpperChar(c) == \E i \in 1..Len(UpperChars) : UpperChars[i] = c
IsLowerChar(c) == \E i \in 1..Len(LowerChars) : LowerChars[i] = c
IsCased(c) == IsUpperChar(c) \/ IsLowerChar(c)
LowerOf(c) ==
    IF IsUpperChar(c)
    THEN LowerChars[CHOOSE i \in 1..Len(UpperChars) : UpperChars[i] = c]
    ELSE c

\* str.lower()
lower(t) == [i \in 1..Len(t) |-> LowerOf(t[i])]

\* str.strip()
strip(t) ==
    LET keep == {i \in 1..Len(t) : t[i] \notin Whitespace}
    IN  IF keep = {} THEN <<>> ELSE SubSeq(t, SeqMin(keep), SeqMax(keep))

\* len(text.split())
word_count(t) ==
    Cardinality({i \in 1..Len(t) :
        /\ t[i] \notin Whitespace
        /\ (i = 1 \/ t[i-1] \in Whitespace)})

\* pattern in text
Contains(t, p) ==
    \E i \in 1..(Len(t) - Len(p) + 1) : SubSeq(t, i, i + Len(p) - 1) = p

\* any(pattern in text for pattern in patterns)
ContainsAny(t, patterns) ==
    \E k \in 1..Len(patterns) : Contains(t, patterns[k])

\* number of patterns of the list that occur in the text
CountMatches(t, patterns) ==
    Cardinality({k \in 1..Len(patterns) : Contains(t, patterns[k])})

\* text.endswith(c), text.startswith(p)
endswith(t, c) == Len(t) >= 1 /\ t[Len(t)] = c
startswith(t, p) == Len(t) >= Len(p) /\ SubSeq(t, 1, Len(p)) = p

\* str.isupper(): at least one cased character and no lowercase one
isupper(t) ==
    /\ \E i \in 1..Len(t) : IsUpperChar(t[i])
    /\ \A i \in 1..Len(t) : ~IsLowerChar(t[i])

\* str.istitle(): uppercase only after uncased, lowercase only after cased
istitle(t) ==
    /\ \E i \in 1..Len(t) : IsCased(t[i])
    /\ \A i \in 1..Len(t) :
         /\ IsUpperChar(t[i]) => (i = 1 \/ ~IsCased(t[i-1]))
         /\ IsLowerChar(t[i]) => (i > 1 /\ IsCased(t[i-1]))

\* str.isdigit()
isdigit(t) == Len(t) >= 1 /\ \A i \in 1..Len(t) : t[i] \in Digits

\* text.split('.')[0].replace(' ', '')
BeforeFirstDot(t) ==
    LET dots == {i \in 1..Len(t) : t[i] = "."}
        head == IF dots = {} THEN t ELSE SubSeq(t, 1, SeqMin(dots) - 1)
    IN  SelectSeq(head, LAMBDA c : c # " ")

\* length of the longest run of characters of S that starts at index from
RunLength(t, S, from) ==
    SeqMax({k \in 0..(Len(t) - from + 1) :
                \A j \in from..(from + k - 1) : t[j] \in S})

IsWsAt(t, i) == i <= Len(t) /\ t[i] \in Whitespace
IsCharAt(t, i, c) == i <= Len(t) /\ t[i] = c

\* the tail \.?\s+ of the marker regexes, tried at index i
OptDotThenSpace(t, i) ==
    IsWsAt(t, i) \/ (IsCharAt(t, i, ".") /\ IsWsAt(t, i + 1))

\* re.match(r'^[0-9]+\.?\s+', text)
MatchNumbered(t) ==
    LET n == RunLength(t, Digits, 1)
    IN  n >= 1 /\ OptDotThenSpace(t, n + 1)

\* re.match(r'^[0-9]+\.[0-9]+\.?\s+', text)
MatchDecimal(t) ==
    LET n == RunLength(t, Digits, 1)
        m == RunLength(t, Digits, n + 2)
    IN  /\ n >= 1
        /\ IsCharAt(t, n + 1, ".")
        /\ m >= 1
        /\ OptDotThenSpace(t, n + 2 + m)

\* re.match(r'^[a-zA-Z][\)\.]\s+', text)
MatchLettered(t) ==
    /\ Len(t) >= 3
    /\ IsCased(t[1])
    /\ t[2] \in {")", "."}
    /\ t[3] \in Whitespace

\* re.match(r'^[ivxlc]+\.?\s+', text, re.I)
MatchRoman(t) ==
    LET n == RunLength(lower(t), {"i","v","x","l","c"}, 1)
    IN  n >= 1 /\ OptDotThenSpace(t, n + 1)

\* re.sub(r'\s+', ' ', text).strip() on texts of the Latin script
normalize_text(t) ==
    LET keep(i) == t[i] \notin Whitespace \/ (i > 1 /\ t[i-1] \notin Whitespace)
        idx == {i \in 1..Len(t) : keep(i)}
        pos == [k \in 1..Cardinality(idx) |->
                  CHOOSE i \in idx : Cardinality({j \in idx : j < i}) = k - 1]
    IN  strip([k \in 1..Cardinality(idx) |->
                 IF t[pos[k]] \in Whitespace THEN " " ELSE t[pos[k]]])

(***************************************************************************)
(* Pattern tables of the script pipeline.                                  *)
(***************************************************************************)

h1_patterns ==
    << <<"a","b","s","t","r","a","c","t">>,
       <<"i","n","t","r","o","d","u","c","t","i","o","n">>,
       <<"c","o","n","c","l","u","s","i","o","n">>,
       <<"s","u","m","m","a","r","y">>,
       <<"o","v","e","r","v","i","e","w">>,
       <<"b","a","c","k","g","r","o","u","n","d">>,
       <<"m","e","t","h","o","d","o","l","o","g","y">>,
       <<"r","e","s","u","l","t","s">>,
       <<"d","i","s","c","u","s","s","i","o","n">>,
       <<"r","e","f","e","r","e","n","c","e","s">>,
       <<"a","b","o","u","t">>,
       <<"e","x","p","e","r","i","e","n","c","e">>,
       <<"e","d","u","c","a","t","i","o","n">>,
       <<"s","k","i","l","l","s">>,
       <<"p","r","o","j","e","c","t","s">>,
       <<"c","o","n","t","a","c","t">>,
       <<"o","b","j","e","c","t","i","v","e">>,
       <<"p","r","o","f","i","l","e">>,
       <<"q","u","a","l","i","f","i","c","a","t","i","o","n","s">>,
       <<"a","c","h","i","e","v","e","m","e","n","t","s">>,
       <<"a","w","a","r","d","s">> >>

h2_patterns ==
    << <<"w","o","r","k"," ","e","x","p","e","r","i","e","n","c","e">>,
       <<"e","m","p","l","o","y","m","e","n","t"," ","h","i","s","t","o","r","y">>,
       <<"p","r","o","f","e","s","s","i","o","n","a","l"," ","e","x","p","e","r","i","e","n","c","e">>,
       <<"t","e","c","h","n","i","c","a","l"," ","s","k","i","l","l","s">>,
       <<"c","o","r","e"," ","c","o","m","p","e","t","e","n","c","i","e","s">>,
       <<"k","e","y"," ","s","k","i","l","l","s">>,
       <<"e","x","p","e","r","t","i","s","e">>,
       <<"c","e","r","t","i","f","i","c","a","t","i","o","n","s">>,
       <<"p","u","b","l","i","c","a","t","i","o","n","s">>,
       <<"r","e","s","e","a","r","c","h">>,
       <<"l","a","n","g","u","a","g","e","s">>,
       <<"e","x","t","r","a","c","u","r","r","i","c","u","l","a","r">>,
       <<"a","c","t","i","v","i","t","i","e","s">>,
       <<"v","o","l","u","n","t","e","e","r","i","n","g">>,
       <<"i","n","t","e","r","e","s","t","s">>,
       <<"t","o","o","l","s">>,
       <<"t","e","c","h","n","o","l","o","g","i","e","s">>,
       <<"s","o","f","t","w","a","r","e">>,
       <<"p","l","a","t","f","o","r","m","s">> >>

h3_patterns ==
    << <<"p","r","o","g","r","a","m","m","i","n","g"," ","l","a","n","g","u","a","g","e","s">>,
       <<"f","r","a","m","e","w","o","r","k","s">>,
       <<"d","a","t","a","b","a","s","e","s">>,
       <<"o","p","e","r","a","t","i","n","g"," ","s","y","s","t","e","m","s">>,
       <<"w","e","b"," ","t","e","c","h","n","o","l","o","g","i","e","s">>,
       <<"m","o","b","i","l","e"," ","d","e","v","e","l","o","p","m","e","n","t">>,
       <<"c","l","o","u","d"," ","p","l","a","t","f","o","r","m","s">>,
       <<"p","r","o","j","e","c","t"," ","m","a","n","a","g","e","m","e","n","t">>,
       <<"s","o","f","t"," ","s","k","i","l","l","s">>,
       <<"l","e","a","d","e","r","s","h","i","p">>,
       <<"c","o","m","m","u","n","i","c","a","t","i","o","n">> >>

body_content_patterns ==
    << <<"f","i","g","u","r","e">>,
       <<"t","a","b","l","e">>,
       <<"p","a","g","e">>,
       <<"w","w","w",".">>,
       <<"h","t","t","p">>,
       <<"@">>,
       <<"c","o","p","y","r","i","g","h","t">>,
       <<"©">>,
       <<"e","t"," ","a","l",".">>,
       <<"i","b","i","d">> >>

\* the patterns of the candidate filter in the place of the title patterns
non_title_patterns_OfFilter == body_content_patterns

non_title_patterns ==
    << <<"p","a","g","e">>,
       <<"f","i","g","u","r","e">>,
       <<"t","a","b","l","e">>,
       <<"a","b","s","t","r","a","c","t">>,
       <<"i","n","t","r","o","d","u","c","t","i","o","n">>,
       <<"w","w","w",".">>,
       <<"h","t","t","p">>,
       <<"@">>,
       <<"c","o","p","y","r","i","g","h","t">>,
       <<"©">> >>

title_indicators ==
    << <<"u","n","i","v","e","r","s","i","t","y">>,
       <<"c","o","l","l","e","g","e">>,
       <<"i","n","s","t","i","t","u","t","e">>,
       <<"c","o","m","p","a","n","y">>,
       <<"c","o","r","p","o","r","a","t","i","o","n">>,
       <<"l","t","d">>,
       <<"i","n","c">>,
       <<"l","l","c">>,
       <<"t","e","c","h","n","o","l","o","g","i","e","s">>,
       <<"s","y","s","t","e","m","s">>,
       <<"s","o","l","u","t","i","o","n","s">> >>

(***************************************************************************)
(* The texts of the explored documents.                                    *)
(***************************************************************************)

TxtMachineLearning == <<"M","a","c","h","i","n","e"," ","L","e","a","r","n","i","n","g"," ","i","n"," ","H","e","a","l","t","h","c","a","r","e">>
TxtBody == <<"T","h","i","s"," ","i","s"," ","a"," ","b","o","d","y"," ","p","a","r","a","g","r","a","p","h"," ","r","e","p","e","a","t","e","d"," ","m","a","n","y"," ","t","i","m","e","s",".",".",".">>
TxtIntroduction == <<"1","."," ","I","n","t","r","o","d","u","c","t","i","o","n">>
TxtBackground == <<"B","a","c","k","g","r","o","u","n","d">>
TxtNotes == <<"N","o","t","e","s"," ","o","n"," ","t","h","e"," ","d","a","t","a"," ","w","e"," ","u","s","e","d"," ","h","e","r","e">>
TxtSkills == <<"S","k","i","l","l","s",":">>

TxtOverview == <<"O","v","e","r","v","i","e","w">>
TxtFigure == <<"F","i","g","u","r","e"," ","2">>
TxtShort == <<"H","i">>
TxtThree == <<"F","A","Q">>
TxtLong == [i \in 1..201 |-> "A"] \o <<>>
TxtSummary == <<"S","u","m","m","a","r","y">>
TxtNumberedCaps == <<"1",".","I","N","T","R","O">>
TxtSpacedNumber == <<"1"," ",".","A","i","m","s">>
TxtNumbered == <<"1","."," ","A","i","m","s">>
TxtDecimal == <<"1",".","1"," ","S","c","o","p","e">>
TxtLettered == <<"A","."," ","A","i","m","s">>
TxtRomanOne == <<"i","."," ","i","t","e","m">>
TxtRomanTwo == <<"i","i","."," ","i","t","e","m">>
TxtSentence == <<"W","e"," ","t","h","e","n"," ","r","a","n"," ","t","h","e"," ","t","e","s","t","s"," ","o","n"," ","a","l","l"," ","d","a","t","a",".">>
TxtSynopsis == <<"S","y","n","o","p","s","i","s">>
TxtAppendix == <<"A","p","p","e","n","d","i","x">>
TxtAbstract == <<"A","b","s","t","r","a","c","t">>
TxtSubtitle == <<"A"," ","S","t","u","d","y"," ","o","f"," ","T","h","i","n","g","s">>
TxtEtAl == <<"S","m","i","t","h"," ","e","t"," ","a","l","."," ","2","0","2","0">>
TxtErrorTitle == <<"E","r","r","o","r"," ","-"," ","C","o","u","l","d"," ","n","o","t"," ","p","r","o","c","e","s","s"," ","d","o","c","u","m","e","n","t">>
TxtUntitled == <<"U","n","t","i","t","l","e","d"," ","D","o","c","u","m","e","n","t">>
TxtEmpty == <<>>

(***************************************************************************)
(* The spans the document reader (PyMuPDF) can deliver.  A span carries    *)
(* its text, its font, its size and bounding box in thousandths of a point,*)
(* its font flags (bit 4 = bold) and the 0-based index of its page.        *)
(***************************************************************************)
Span(text, size, flags, y0, page_num) ==
    [text |-> text, font |-> "Helvetica", size |-> size, flags |-> flags,
     bbox |-> <<72000, y0, 300000, y0 + size>>, page_num |-> page_num]

SpanTitle      == Span(TxtMachineLearning, 24000, 16,  50000, 0)
SpanBody       == Span(TxtBody,            12000,  0, 300000, 0)
SpanIntro      == Span(TxtIntroduction,    18000, 16,  80000, 1)
SpanBackground == Span(TxtBackground,      16000,  0, 200000, 1)
SpanTie        == Span(TxtMachineLearning, 14000,  0,  50000, 1)
SpanNotes      == Span(TxtNotes,           12000, 16, 520000, 1)
SpanSkills     == Span(TxtSkills,          16000, 20, 550000, 1)
SpanNotesLow   == Span(TxtNotes,           12004, 16, 600000, 1)
SpanNotesBig   == Span(TxtNotes,           24000,  0, 700000, 1)
SpanOverview   == Span(TxtOverview,        16000, 16, 400000, 0)

\* spans that meet the limits of the candidate filter
SpanFigure       == Span(TxtFigure,       16000, 16, 100000, 0)
SpanShort        == Span(TxtShort,        24000, 16,  50000, 0)
SpanThree        == Span(TxtThree,        16000, 16, 150000, 0)
SpanLong         == Span(TxtLong,         16000, 16, 250000, 0)
SpanSummary      == Span(TxtSummary,      12000,  0, 100000, 0)
SpanNumberedCaps == Span(TxtNumberedCaps, 36000, 16,  50000, 0)
SpanSentence     == Span(TxtSentence,     12000, 16, 300000, 0)
SpanSpacedNumber == Span(TxtSpacedNumber, 16000, 16, 350000, 0)

\* spans that start with a numbering marker
SpanNumbered == Span(TxtNumbered, 16000, 16, 100000, 0)
SpanDecimal  == Span(TxtDecimal,  14000, 16, 200000, 0)
SpanLettered == Span(TxtLettered, 14000, 16, 320000, 0)
SpanRomanOne == Span(TxtRomanOne, 12000, 16, 400000, 0)
SpanRomanTwo == Span(TxtRomanTwo, 12000, 16, 520000, 0)

\* spans that meet the cases of the title selection
SpanSynopsis == Span(TxtSynopsis, 12000,  0, 150000, 0)
SpanAppendix == Span(TxtAppendix, 16000, 16, 100000, 2)
SpanAbstract == Span(TxtAbstract, 16000, 16,  50000, 0)
SpanSubtitle == Span(TxtSubtitle, 15500,  0, 120000, 0)
SpanEtAl     == Span(TxtEtAl,     16000, 16,  60000, 0)

\* spans whose font size rounds to 0.00
SpanTiny      == Span(TxtNotes,   4, 16, 520000, 1)
SpanTinyPlain == Span(TxtBody,    4,  0, 300000, 0)

SpanPool == {SpanTitle, SpanBody, SpanOverview, SpanIntro, SpanBackground,
             SpanTie, SpanNotes, SpanSkills, SpanNotesLow, SpanNotesBig}
\* the spans a document may repeat many times, and the spans that may
\* surround the repetition
RunPool == {SpanBody, SpanNotes}
LongPool == {SpanTitle, SpanIntro, SpanBackground}
RunLengths == {BodyRun, MaxRun}
TitlePool == {SpanSummary, SpanSynopsis, SpanAbstract, SpanSubtitle,
              SpanOverview, SpanFigure, SpanThree, SpanLong, SpanAppendix,
              SpanEtAl}
TinyPool == {SpanTiny, SpanTinyPlain, SpanTitle, SpanBody, SpanNotes, SpanSkills}
\* the documents analysed under each configuration
ConfigPool == {SpanTitle, SpanBody, SpanNotes, SpanSkills}
MaxConfigBlocks == 2

\* the documents of a directory: a heading, body text, and a span whose font
\* size rounds to 0.00
BatchPool == {SpanNotes, SpanBody, SpanTiny}
MaxBatchBlocks == 1
MaxFiles == 2

MarkerPool == {SpanNumbered, SpanDecimal, SpanLettered, SpanRomanOne,
               SpanRomanTwo, SpanBody}

FilterPool == {SpanFigure, SpanShort, SpanThree, SpanLong, SpanSummary,
               SpanNumberedCaps, SpanSentence, SpanSpacedNumber, SpanBody}

(***************************************************************************)
(* What the pipelines read off a text, computed once per text of the pool. *)
(***************************************************************************)
Texts ==
    LET raw == {TxtMachineLearning, TxtBody, TxtIntroduction,
                TxtBackground, TxtNotes, TxtSkills, TxtOverview, TxtFigure,
                TxtShort, TxtThree, TxtLong, TxtSummary, TxtNumberedCaps,
                TxtSentence, TxtSpacedNumber, TxtNumbered, TxtDecimal,
                TxtLettered, TxtRomanOne, TxtRomanTwo, TxtSynopsis,
                TxtAppendix, TxtAbstract, TxtSubtitle, TxtEtAl}
    IN  raw \cup {strip(t) : t \in raw} \cup {normalize_text(strip(t)) : t \in raw}

TextFacts(raw) ==
    LET text == strip(raw)
        text_lower == lower(text)
    IN  [text                |-> text,
         length              |-> Len(text),
         word_count          |-> word_count(text),
         has_sentence_ending |->
             endswith(text, ".") \/ endswith(text, "!") \/ endswith(text, "?"),
         ends_with_period    |-> endswith(text, "."),
         is_upper            |-> isupper(text),
         is_title_case       |-> istitle(text),
         starts_with_number  |-> isdigit(BeforeFirstDot(text)),
         has_body_pattern    |-> ContainsAny(text_lower, body_content_patterns),
         has_non_title       |-> ContainsAny(text_lower, non_title_patterns),
         fig_or_table        |-> \/ startswith(text, <<"F","i","g">>)
                                 \/ startswith(text, <<"T","a","b","l","e">>),
         h1_matches          |-> CountMatches(text_lower, h1_patterns),
         h2_matches          |-> CountMatches(text_lower, h2_patterns),
         h3_matches          |-> CountMatches(text_lower, h3_patterns),
         marker              |-> IF MatchNumbered(text) THEN "numbered"
                                 ELSE IF MatchDecimal(text) THEN "decimal"
                                 ELSE IF MatchLettered(text) THEN "lettered"
                                 ELSE IF MatchRoman(text) THEN "roman"
                                 ELSE "none",
         has_colon           |-> Contains(text, <<":">>),
         ends_with_colon     |-> endswith(text, ":"),
         has_institution     |-> ContainsAny(text_lower, title_indicators),
         normalized          |-> normalize_text(text)]

TextTable == {<<t, TextFacts(t)>> : t \in Texts}
Facts(t) == (CHOOSE p \in TextTable : p[1] = t)[2]

(***************************************************************************)
(* Arithmetic helpers.                                                     *)
(***************************************************************************)
Min2(a, b) == IF a <= b THEN a ELSE b
Max2(a, b) == IF a >= b THEN a ELSE b
Abs(a) == IF a >= 0 THEN a ELSE 0 - a
\* a / b rounded to the nearest integer, ties to the even one (b > 0)
RoundDiv(a, b) ==
    LET q == a \div b
        r == a % b
    IN  IF 2 * r < b THEN q
        ELSE IF 2 * r > b THEN q + 1
        ELSE IF q % 2 = 0 THEN q ELSE q + 1
\* round(v, 2): thousandths of a point to hundredths of a point
Round2(v) == RoundDiv(v, 10)
\* bool(font_flags & 16)
IsBoldFlag(flags) == (flags \div 16) % 2 = 1

RECURSIVE SumSeq(_)
SumSeq(s) == IF s = <<>> THEN 0 ELSE s[1] + SumSeq(Tail(s))

\* lexicographic order of the sort keys (page, position)
KeyLess(a, b) == a[1] < b[1] \/ (a[1] = b[1] /\ a[2] < b[2])

\* list.sort(key=...): stable sort of s by the keys keys[i]; rank[i] is the
\* place of s[i] in the result
StableSort(s, keys) ==
    LET n == Len(s)
        ks == List(keys)
        rank == List([i \in 1..n |->
                   1 + Cardinality({j \in 1..n :
                         \/ KeyLess(ks[j], ks[i])
                         \/ (ks[j] = ks[i] /\ j < i)})])
    IN  List([p \in 1..n |-> s[CHOOSE i \in 1..n : rank[i] = p]])

\* s[:n] taking one element too many
Take_OffByOne(s, n) == SubSeq(s, 1, Min2(n + 1, Len(s)))

\* s[:n]
Take(s, n) == SubSeq(s, 1, Min2(n, Len(s)))

(***************************************************************************)
(* Script pipeline, step 3: _extract_text_blocks.                          *)
(***************************************************************************)
TextBlock(span) ==
    [text        |-> Facts(span.text).text,
     font_size   |-> Round2(span.size),
     font_name   |-> span.font,
     is_bold     |-> IsBoldFlag(span.flags),
     page_number |-> span.page_num + 1,
     position    |-> [x      |-> Round2(span.bbox[1]),
                      y      |-> Round2(span.bbox[2]),
                      width  |-> Round2(span.bbox[3] - span.bbox[1]),
                      height |-> Round2(span.bbox[4] - span.bbox[2])],
     bbox        |-> [k \in 1..4 |-> Round2(span.bbox[k])]]

_extract_text_blocks(spans) ==
    LET kept == SelectSeq(spans, LAMBDA sp : Facts(sp.text).text # <<>>)
    IN  List([i \in 1..Len(kept) |-> TextBlock(kept[i])])

(***************************************************************************)
(* Script pipeline: _analyze_font_styles.                                  *)
(***************************************************************************)
\* number of occurrences of v in s
Count(s, v) == Cardinality({i \in 1..Len(s) : s[i] = v})

\* the distinct values of s in the order of their first occurrence
\* (the key order of a Counter)
FirstOccurrences(s) ==
    LET firsts == {i \in 1..Len(s) : \A j \in 1..(i-1) : s[j] # s[i]}
        idx == SelectSeq(List([i \in 1..Len(s) |-> i]), LAMBDA i : i \in firsts)
    IN  List([k \in 1..Len(idx) |-> s[idx[k]]])

\* Counter(s).most_common(): by decreasing count, ties in Counter order
most_common(s) ==
    LET vals == FirstOccurrences(s)
        keys == List([k \in 1..Len(vals) |-> <<0 - Count(s, vals[k]), 0>>])
    IN  StableSort(vals, keys)

\* the last value, in order of occurrence, whose count is maximal
MostCommon_LastSeen(s) ==
    LET counts == List([i \in 1..Len(s) |-> Count(s, s[i])])
        top == SeqMax({counts[i] : i \in 1..Len(s)})
    IN  s[SeqMax({i \in 1..Len(s) : counts[i] = top})]

\* Counter(s).most_common(1)[0][0]: the first value, in order of first
\* occurrence, whose count is maximal
MostCommon(s) ==
    LET counts == List([i \in 1..Len(s) |-> Count(s, s[i])])
        top == SeqMax({counts[i] : i \in 1..Len(s)})
    IN  s[SeqMin({i \in 1..Len(s) : counts[i] = top})]

\* sorted(s)[len(s) // 2]
Median(s) ==
    LET k == Len(s) \div 2
    IN  CHOOSE v \in {s[i] : i \in 1..Len(s)} :
            /\ Cardinality({i \in 1..Len(s) : s[i] < v}) <= k
            /\ Cardinality({i \in 1..Len(s) : s[i] <= v}) > k

FontSizes(text_blocks) ==
    List([i \in 1..Len(text_blocks) |-> text_blocks[i].font_size])
FontNames(text_blocks) ==
    List([i \in 1..Len(text_blocks) |-> text_blocks[i].font_name])

\* the default body size, 12.0 points
DefaultBodySize == 1200

_analyze_font_styles(text_blocks) ==
    IF text_blocks = <<>>
    THEN [body_font_size    |-> DefaultBodySize,
          body_font_name    |-> "default",
          common_font_sizes |-> <<>>,
          font_size_stats   |-> <<>>]
    ELSE
      LET font_sizes == FontSizes(text_blocks)
          sizes == {font_sizes[i] : i \in 1..Len(font_sizes)}
          most_common_size == MostCommon(font_sizes)
      IN  [body_font_size     |-> most_common_size,
           body_font_name     |-> MostCommon(FontNames(text_blocks)),
           common_font_sizes  |-> Take(most_common(font_sizes), 5),
           font_size_stats    |->
               [average     |-> RoundDiv(SumSeq(font_sizes), Len(font_sizes)),
                median      |-> Median(font_sizes),
                min         |-> SeqMin(sizes),
                max         |-> SeqMax(sizes),
                most_common |-> most_common_size],
           total_unique_sizes |-> Cardinality(sizes),
           size_distribution  |->
               LET top == Take(most_common(font_sizes), 10)
               IN  [v \in {top[k] : k \in 1..Len(top)} |-> Count(font_sizes, v)]]

(***************************************************************************)
(* Script pipeline: _filter_heading_candidates.                            *)
(***************************************************************************)
\* the heading-acceptance threshold of the filter
ScoreThreshold == 25

\* the whole-number part of heading_score with the length factor
\* 20 - word_count
ScoreBonus_SingleLengthWeight(block) ==
    LET f == Facts(block.text)
        wc == f.word_count
        is_all_caps == f.is_upper /\ f.length > 3
    IN    (IF block.is_bold THEN 20 ELSE 0)
        + (IF wc <= 8 THEN 20 - wc ELSE 0)
        + (IF block.position.y < 20000 THEN 10 ELSE 0)
        + (IF ~f.has_sentence_ending THEN 5 ELSE 0)
        + (IF is_all_caps /\ f.length < 50 THEN 10 ELSE 0)
        + (IF f.starts_with_number THEN 8 ELSE 0)

\* the bonus with the all-caps factor given to texts of any length below 50
ScoreBonus_CapsOfAnyLength(block) ==
    LET f == Facts(block.text)
        wc == f.word_count
    IN    (IF block.is_bold THEN 20 ELSE 0)
        + (IF wc <= 8 THEN 20 - wc * 2 ELSE 0)
        + (IF block.position.y < 20000 THEN 10 ELSE 0)
        + (IF ~f.has_sentence_ending THEN 5 ELSE 0)
        + (IF f.is_upper /\ f.length < 50 THEN 10 ELSE 0)
        + (IF f.starts_with_number THEN 8 ELSE 0)

\* the whole-number part of heading_score: everything but the size factor
ScoreBonus(block) ==
    LET f == Facts(block.text)
        wc == f.word_count
        is_all_caps == f.is_upper /\ f.length > 3
    IN    (IF block.is_bold THEN 20 ELSE 0)
        + (IF wc <= 8 THEN 20 - wc * 2 ELSE 0)
        + (IF block.position.y < 20000 THEN 10 ELSE 0)
        + (IF ~f.has_sentence_ending THEN 5 ELSE 0)
        + (IF is_all_caps /\ f.length < 50 THEN 10 ELSE 0)
        + (IF f.starts_with_number THEN 8 ELSE 0)

\* heading_score * body_font_size: min(40, (size_ratio - 1) * 20) + bonus
ScoreTimesBody(block, body) ==
    Min2(40 * body, 20 * (block.font_size - body)) + ScoreBonus(block) * body

\* round(heading_score, 2), in hundredths
RoundedScore(block, body) == RoundDiv(100 * ScoreTimesBody(block, body), body)

\* the rejection test matching the patterns against the text as written
IsRejected_CaseSensitive(block) ==
    LET f == Facts(block.text)
    IN  \/ f.length < 3
        \/ f.length > 200
        \/ ContainsAny(f.text, body_content_patterns)

\* len(text) < 3 or len(text) > 200, or a body-content pattern occurs
IsRejected(block) ==
    LET f == Facts(block.text)
    IN  \/ f.length < 3
        \/ f.length > 200
        \/ f.has_body_pattern

\* is_potential_heading
IsPotentialHeading(block, body, avg) ==
    \/ (block.font_size * 10 > body * 11 /\ block.font_size * 100 > avg * 105)
    \/ (block.is_bold /\ block.font_size * 10 >= body * 9)
    \/ block.font_size * 10 > avg * 13

\* the candidate test without the is_potential_heading condition
IsCandidate_NoGate(block, font_analysis) ==
    LET body == font_analysis.body_font_size
    IN  /\ ~IsRejected(block)
        /\ ScoreTimesBody(block, body) >= ScoreThreshold * body

IsCandidate(block, font_analysis) ==
    LET body == font_analysis.body_font_size
        avg == font_analysis.font_size_stats.average
    IN  /\ ~IsRejected(block)
        /\ IsPotentialHeading(block, body, avg)
        /\ ScoreTimesBody(block, body) >= ScoreThreshold * body

\* block.copy() with the score attached
Candidate(block, font_analysis) ==
    [text          |-> block.text,
     font_size     |-> block.font_size,
     font_name     |-> block.font_name,
     is_bold       |-> block.is_bold,
     page_number   |-> block.page_number,
     position      |-> block.position,
     bbox          |-> block.bbox,
     heading_score |-> RoundedScore(block, font_analysis.body_font_size)]

\* size_ratio = font_size / body_font_size raises ZeroDivisionError: the
\* body size is 0 and the loop reaches the division for some block
FilterDividesByZero(text_blocks, font_analysis) ==
    /\ font_analysis.body_font_size = 0
    /\ \E i \in 1..Len(text_blocks) :
          /\ ~IsRejected(text_blocks[i])
          /\ IsPotentialHeading(text_blocks[i], font_analysis.body_font_size,
                                font_analysis.font_size_stats.average)

\* the structural_outline of _create_error_result
ErrorOutline(error_message) ==
    [title |-> TxtErrorTitle, headings |-> <<>>, error |-> error_message]

\* the candidates in the order of the text blocks, before the final sort
ScanCandidates(text_blocks, font_analysis) ==
    LET kept == SelectSeq(text_blocks, LAMBDA b : IsCandidate(b, font_analysis))
    IN  List([i \in 1..Len(kept) |-> Candidate(kept[i], font_analysis)])

SortCandidates(cands) ==
    StableSort(cands,
        List([i \in 1..Len(cands) |->
                 <<cands[i].page_number, cands[i].position.y>>]))

_filter_heading_candidates(text_blocks, font_analysis) ==
    SortCandidates(ScanCandidates(text_blocks, font_analysis))

(***************************************************************************)
(* Script pipeline: _classify_heading_levels.                              *)
(***************************************************************************)
Vec(a, b, c) == [h1 |-> a, h2 |-> b, h3 |-> c]
VecAdd(u, v) == [h1 |-> u.h1 + v.h1, h2 |-> u.h2 + v.h2, h3 |-> u.h3 + v.h3]

\* pattern matching scores without the H1 section names
PatternScores_NoSectionNames(f) ==
    Vec(0, 20 * f.h2_matches, 15 * f.h3_matches)

\* pattern matching scores
PatternScores(f) ==
    Vec(25 * f.h1_matches, 20 * f.h2_matches, 15 * f.h3_matches)

\* position-based scoring
PositionScores(y) ==
    IF y < 15000 THEN Vec(20, 0, 0)
    ELSE IF y < 30000 THEN Vec(10, 15, 0)
    ELSE IF y < 50000 THEN Vec(0, 10, 5)
    ELSE Vec(0, 0, 10)

\* text length analysis
LengthScores(wc) ==
    IF wc = 1 THEN Vec(15, 10, 0)
    ELSE IF wc <= 3 THEN Vec(10, 15, 5)
    ELSE IF wc <= 6 THEN Vec(0, 10, 10)
    ELSE Vec(0, 0, 5)

\* font size analysis on size_ratio = font_size / body_font_size
SizeScores(font_size, body) ==
    IF font_size * 10 >= body * 20 THEN Vec(20, 0, 0)
    ELSE IF font_size * 10 >= body * 16 THEN Vec(15, 10, 0)
    ELSE IF font_size * 10 >= body * 13 THEN Vec(5, 15, 5)
    ELSE IF font_size * 10 >= body * 11 THEN Vec(0, 10, 10)
    ELSE Vec(0, 0, 15)

BoldScores(is_bold) == IF is_bold THEN Vec(15, 15, 10) ELSE Vec(0, 0, 0)

CapsScores(f) ==
    IF f.is_upper /\ f.length > 2 THEN Vec(20, 10, 0) ELSE Vec(0, 0, 0)

\* numbered / lettered headings: the first regex that matches
MarkerScores(f) ==
    IF f.marker = "numbered" THEN Vec(15, 20, 0)
    ELSE IF f.marker = "decimal" THEN Vec(0, 25, 10)
    ELSE IF f.marker = "lettered" THEN Vec(0, 15, 20)
    ELSE IF f.marker = "roman" THEN Vec(0, 10, 15)
    ELSE Vec(0, 0, 0)

ColonScores(f) ==
    IF f.has_colon /\ ~f.ends_with_colon THEN Vec(0, 10, 15)
    ELSE IF f.ends_with_colon THEN Vec(10, 20, 0)
    ELSE Vec(0, 0, 0)

InstitutionScores(f) ==
    IF f.has_institution THEN Vec(0, 15, 10) ELSE Vec(0, 0, 0)

\* h1_score, h2_score, h3_score of one candidate
LevelScores(block, body) ==
    LET f == Facts(block.text)
    IN  VecAdd(PatternScores(f),
        VecAdd(PositionScores(block.position.y),
        VecAdd(LengthScores(f.word_count),
        VecAdd(SizeScores(block.font_size, body),
        VecAdd(BoldScores(block.is_bold),
        VecAdd(CapsScores(f),
        VecAdd(MarkerScores(f),
        VecAdd(ColonScores(f),
               InstitutionScores(f)))))))))

\* the fallback logic on size_ratio, boldness and word count
FallbackLevel(font_size, body, is_bold, wc) ==
    IF font_size * 10 >= body * 15 \/ (is_bold /\ wc <= 2) THEN "H1"
    ELSE IF font_size * 10 >= body * 12 \/ (is_bold /\ wc <= 4) THEN "H2"
    ELSE "H3"

\* final classification that picks the winner first and tests its floor after
ResolveLevel_PriorityThenFloor(sc, font_size, body, is_bold, wc) ==
    LET max_score == Max2(sc.h1, Max2(sc.h2, sc.h3))
    IN  IF max_score = sc.h1
        THEN IF sc.h1 >= 25 THEN "H1"
             ELSE FallbackLevel(font_size, body, is_bold, wc)
        ELSE IF max_score = sc.h2
        THEN IF sc.h2 >= 20 THEN "H2"
             ELSE FallbackLevel(font_size, body, is_bold, wc)
        ELSE IF sc.h3 >= 15 THEN "H3"
             ELSE FallbackLevel(font_size, body, is_bold, wc)

\* final classification: the level of a candidate from its three scores
ResolveLevel(sc, font_size, body, is_bold, wc) ==
    LET max_score == Max2(sc.h1, Max2(sc.h2, sc.h3))
    IN  IF max_score = sc.h1 /\ sc.h1 >= 25 THEN "H1"
        ELSE IF max_score = sc.h2 /\ sc.h2 >= 20 THEN "H2"
        ELSE IF max_score = sc.h3 /\ sc.h3 >= 15 THEN "H3"
        ELSE FallbackLevel(font_size, body, is_bold, wc)

ClassifiedHeading(block, font_analysis) ==
    LET body == font_analysis.body_font_size
        f == Facts(block.text)
        sc == LevelScores(block, body)
    IN  [level         |-> ResolveLevel(sc, block.font_size, body,
                                        block.is_bold, f.word_count),
         text          |-> f.text,
         page          |-> block.page_number,
         position      |-> block.position,
         font_size     |-> block.font_size,
         is_bold       |-> block.is_bold,
         heading_score |-> block.heading_score,
         size_ratio    |-> RoundDiv(100 * block.font_size, body),
         classification_scores |->
             [h1 |-> sc.h1, h2 |-> sc.h2, h3 |-> sc.h3,
              final |-> Max2(sc.h1, Max2(sc.h2, sc.h3))]]

\* the classified headings, sorted by (page, y), before the refinement
ClassifyAndSort(heading_candidates, font_analysis) ==
    LET hs == List([i \in 1..Len(heading_candidates) |->
                       ClassifiedHeading(heading_candidates[i], font_analysis)])
    IN  StableSort(hs,
            List([i \in 1..Len(hs) |-> <<hs[i].page, hs[i].position.y>>]))

\* the refinement step with the sandwiched H1 demoted to H3
RefineAt_DemoteToH3(headings, i) ==
    IF i > 1 /\ i < Len(headings)
    THEN
      LET current_level == headings[i].level
          prev_level == headings[i-1].level
          next_level == headings[i+1].level
          sc == headings[i].classification_scores
      IN  IF current_level = "H1" /\ prev_level = "H3" /\ next_level = "H3"
          THEN IF sc.h2 >= 15
               THEN [headings EXCEPT ![i].level = "H3"]
               ELSE headings
          ELSE IF current_level = "H3" /\ prev_level = "H2" /\ next_level = "H2"
          THEN IF sc.h2 >= sc.h3
               THEN [headings EXCEPT ![i].level = "H2"]
               ELSE headings
          ELSE headings
    ELSE headings

\* the refinement step with the H1 rule comparing h2 against h1
RefineAt_CompareWithH1(headings, i) ==
    IF i > 1 /\ i < Len(headings)
    THEN
      LET current_level == headings[i].level
          prev_level == headings[i-1].level
          next_level == headings[i+1].level
          sc == headings[i].classification_scores
      IN  IF current_level = "H1" /\ prev_level = "H3" /\ next_level = "H3"
          THEN IF sc.h2 >= sc.h1
               THEN [headings EXCEPT ![i].level = "H2"]
               ELSE headings
          ELSE IF current_level = "H3" /\ prev_level = "H2" /\ next_level = "H2"
          THEN IF sc.h2 >= sc.h3
               THEN [headings EXCEPT ![i].level = "H2"]
               ELSE headings
          ELSE headings
    ELSE headings

\* the body of the refinement loop for index i; the list is updated in
\* place, so headings[i-1] already carries its refined level
RefineAt(headings, i) ==
    IF i > 1 /\ i < Len(headings)
    THEN
      LET current_level == headings[i].level
          prev_level == headings[i-1].level
          next_level == headings[i+1].level
          sc == headings[i].classification_scores
      IN  IF current_level = "H1" /\ prev_level = "H3" /\ next_level = "H3"
          THEN IF sc.h2 >= 15
               THEN [headings EXCEPT ![i].level = "H2"]
               ELSE headings
          ELSE IF current_level = "H3" /\ prev_level = "H2" /\ next_level = "H2"
          THEN IF sc.h2 >= sc.h3
               THEN [headings EXCEPT ![i].level = "H2"]
               ELSE headings
          ELSE headings
    ELSE headings

RECURSIVE RefineFrom(_, _)
RefineFrom(headings, i) ==
    IF i > Len(headings) THEN headings
    ELSE RefineFrom(RefineAt(headings, i), i + 1)

_refine_heading_hierarchy(headings) ==
    IF Len(headings) <= 1 THEN headings ELSE RefineFrom(headings, 1)

_classify_heading_levels(heading_candidates, font_analysis) ==
    IF heading_candidates = <<>> THEN <<>>
    ELSE _refine_heading_hierarchy(ClassifyAndSort(heading_candidates, font_analysis))

(***************************************************************************)
(* Script pipeline: _identify_document_title.                              *)
(***************************************************************************)
\* title_score of one block, in hundredths of a point
TitleScore(block) ==
    LET f == Facts(block.text)
        wc == f.word_count
    IN    Min2(4000, block.font_size * 2)
        + (IF block.is_bold THEN 2000 ELSE 0)
        + (IF block.page_number = 1 THEN 2000
           ELSE IF block.page_number = 2 THEN 1000 ELSE 0)
        + (IF block.position.y < 20000 THEN 1500
           ELSE IF block.position.y < 40000 THEN 1000 ELSE 0)
        + (IF 2 <= wc /\ wc <= 12 THEN 100 * (15 - Abs(wc - 6)) ELSE 0)
        + (IF ~f.ends_with_period /\ ~f.fig_or_table THEN 1000 ELSE 0)

\* the blocks the scoring loop skips
IsSkippedTitle(block) ==
    LET f == Facts(block.text)
    IN  \/ f.length < 5
        \/ f.length > 150
        \/ f.has_non_title

\* the scoring loop in which a later block of equal score takes over
RECURSIVE BestTitleFrom_LastOnTie(_, _, _, _)
BestTitleFrom_LastOnTie(blocks, i, best_title, best_score) ==
    IF i > Len(blocks) THEN best_title
    ELSE IF ~IsSkippedTitle(blocks[i]) /\ TitleScore(blocks[i]) >= best_score
    THEN BestTitleFrom_LastOnTie(blocks, i + 1, Facts(blocks[i].text).text,
                                 TitleScore(blocks[i]))
    ELSE BestTitleFrom_LastOnTie(blocks, i + 1, best_title, best_score)

\* the scoring loop from index i on, carrying (best_title, best_score)
RECURSIVE BestTitleFrom(_, _, _, _)
BestTitleFrom(blocks, i, best_title, best_score) ==
    IF i > Len(blocks) THEN best_title
    ELSE IF ~IsSkippedTitle(blocks[i]) /\ TitleScore(blocks[i]) > best_score
    THEN BestTitleFrom(blocks, i + 1, Facts(blocks[i].text).text,
                       TitleScore(blocks[i]))
    ELSE BestTitleFrom(blocks, i + 1, best_title, best_score)

_identify_document_title(text_blocks) ==
    IF text_blocks = <<>> THEN TxtUntitled
    ELSE
      LET title_candidates == SelectSeq(text_blocks, LAMBDA b : b.page_number <= 2)
      IN  IF title_candidates = <<>> THEN TxtUntitled
          ELSE
            LET max_font_size ==
                    SeqMax({title_candidates[i].font_size :
                               i \in 1..Len(title_candidates)})
                largest_text_blocks ==
                    SelectSeq(title_candidates,
                        LAMBDA b : b.font_size * 100 >= max_font_size * 95)
                scored == BestTitleFrom(largest_text_blocks, 1, TxtEmpty, 0)
                best_title ==
                    IF scored = TxtEmpty /\ largest_text_blocks # <<>>
                    THEN Facts(largest_text_blocks[1].text).text
                    ELSE scored
            IN  IF best_title # TxtEmpty THEN best_title ELSE TxtUntitled

(***************************************************************************)
(* Script pipeline: the assembly at the end of                             *)
(* _extract_headings_from_blocks.                                          *)
(***************************************************************************)
\* the limit of the slice classified_headings[:20]
HeadingLimit == 20

FinalHeading(h) ==
    [level |-> h.level, text |-> h.text, page |-> h.page,
     position |-> [x |-> h.position.x, y |-> h.position.y]]

FinalHeadings(classified) ==
    LET kept == Take(classified, HeadingLimit)
    IN  List([i \in 1..Len(kept) |-> FinalHeading(kept[i])])

EmptyOutline == [title |-> TxtEmpty, headings |-> <<>>]

Outline(title, classified, cands, fa) ==
    [title    |-> title,
     headings |-> FinalHeadings(classified),
     analysis_metadata |->
         [font_analysis       |-> fa,
          total_candidates    |-> Len(cands),
          final_heading_count |-> Len(FinalHeadings(classified))]]

(***************************************************************************)
(* Module pipeline: PDFAnalyzer._analyze_pdf_structure and                 *)
(* _identify_headings, with MultilingualProcessor.normalize_text.          *)
(***************************************************************************)
\* Config.MAX_HEADINGS_PER_DOCUMENT
MAX_HEADINGS_PER_DOCUMENT == 50

\* Config.__init__ with no environment variable set; ratios and delays in
\* hundredths
DefaultEnvironment ==
    [DOCUDOTS_MAX_FILE_SIZE_MB    |-> 100,
     DOCUDOTS_MAX_PAGES           |-> 1000,
     DOCUDOTS_MAX_PROCESSING_TIME |-> 300,
     DOCUDOTS_MAX_HEADINGS        |-> MAX_HEADINGS_PER_DOCUMENT,
     DOCUDOTS_HEADING_THRESHOLD   |-> 25,
     DOCUDOTS_H1_RATIO            |-> 150,
     DOCUDOTS_H2_RATIO            |-> 120,
     DOCUDOTS_H3_RATIO            |-> 110,
     DOCUDOTS_WEIGHT_SIZE_LARGE   |-> 25,
     DOCUDOTS_WEIGHT_BOLD         |-> 15,
     DOCUDOTS_RETRY_ATTEMPTS      |-> 3,
     DOCUDOTS_RETRY_DELAY         |-> 100]

\* the environments a process can be started in: the default one, and the
\* default one with one variable set
Environments ==
    {DefaultEnvironment,
     [DefaultEnvironment EXCEPT !.DOCUDOTS_MAX_HEADINGS = 1],
     [DefaultEnvironment EXCEPT !.DOCUDOTS_MAX_HEADINGS = 0],
     [DefaultEnvironment EXCEPT !.DOCUDOTS_MAX_HEADINGS = 0 - 1],
     [DefaultEnvironment EXCEPT !.DOCUDOTS_HEADING_THRESHOLD = 0 - 5],
     [DefaultEnvironment EXCEPT !.DOCUDOTS_WEIGHT_BOLD = 0 - 15],
     [DefaultEnvironment EXCEPT !.DOCUDOTS_H1_RATIO = 0],
     [DefaultEnvironment EXCEPT !.DOCUDOTS_MAX_PAGES = 0]}

\* Config.__init__: every value is read from the environment
Config(env) ==
    [MAX_FILE_SIZE_MB            |-> env.DOCUDOTS_MAX_FILE_SIZE_MB,
     MAX_PAGES                   |-> env.DOCUDOTS_MAX_PAGES,
     MAX_PROCESSING_TIME_SECONDS |-> env.DOCUDOTS_MAX_PROCESSING_TIME,
     MAX_HEADINGS_PER_DOCUMENT   |-> env.DOCUDOTS_MAX_HEADINGS,
     HEADING_SCORE_THRESHOLD     |-> env.DOCUDOTS_HEADING_THRESHOLD,
     FONT_SIZE_RATIOS            |-> [H1 |-> env.DOCUDOTS_H1_RATIO,
                                      H2 |-> env.DOCUDOTS_H2_RATIO,
                                      H3 |-> env.DOCUDOTS_H3_RATIO],
     PATTERN_WEIGHTS             |-> [font_size_large |-> env.DOCUDOTS_WEIGHT_SIZE_LARGE,
                                      font_bold       |-> env.DOCUDOTS_WEIGHT_BOLD],
     RETRY_MAX_ATTEMPTS          |-> env.DOCUDOTS_RETRY_ATTEMPTS,
     RETRY_DELAY                 |-> env.DOCUDOTS_RETRY_DELAY]

\* Config.validate: it returns True, or raises a ValueError with a message
ValueError(message) == [raised |-> "ValueError", message |-> message]

ConfigValidate(c) ==
    IF c.MAX_FILE_SIZE_MB <= 0 THEN ValueError("MAX_FILE_SIZE_MB must be positive")
    ELSE IF c.MAX_PAGES <= 0 THEN ValueError("MAX_PAGES must be positive")
    ELSE IF c.MAX_PROCESSING_TIME_SECONDS <= 0
    THEN ValueError("MAX_PROCESSING_TIME_SECONDS must be positive")
    ELSE IF ~ \A k \in DOMAIN c.FONT_SIZE_RATIOS : c.FONT_SIZE_RATIOS[k] > 0
    THEN ValueError("All font size ratios must be positive")
    ELSE IF c.RETRY_MAX_ATTEMPTS < 1 THEN ValueError("RETRY_MAX_ATTEMPTS must be at least 1")
    ELSE IF c.RETRY_DELAY < 0 THEN ValueError("RETRY_DELAY must be non-negative")
    ELSE [returned |-> TRUE]

\* heading_candidates[:max_headings]: a negative bound counts from the end
SliceTo(s, n) ==
    IF n >= 0 THEN Take(s, n) ELSE SubSeq(s, 1, Max2(Len(s) + n, 0))

\* the block built from a span, after process_text_blocks
ModuleBlock(span) ==
    [text          |-> Facts(span.text).normalized,
     original_text |-> Facts(span.text).text,
     page          |-> span.page_num,
     font_size     |-> span.size,
     font_flags    |-> span.flags,
     bbox          |-> span.bbox]

ModuleBlocks(spans) ==
    LET kept == SelectSeq(spans, LAMBDA sp : Facts(sp.text).text # <<>>)
    IN  List([i \in 1..Len(kept) |-> ModuleBlock(kept[i])])

\* max(first_page_blocks, key=font_size): the first block of maximal size
ModuleTitle(blocks) ==
    LET first_page_blocks == SelectSeq(blocks, LAMBDA b : b.page = 0)
        n == Len(first_page_blocks)
    IN  IF n = 0 THEN TxtUntitled
        ELSE first_page_blocks[
                 SeqMin({i \in 1..n : \A j \in 1..n :
                     first_page_blocks[j].font_size <= first_page_blocks[i].font_size})
             ].text

\* the heading classification logic: "H1", "H2", "H3" or "none"
ModuleLevel(block, body_text_size) ==
    LET fs == block.font_size
        is_bold == IsBoldFlag(block.font_flags)
        f == Facts(block.text)
        is_short == f.word_count <= 8
        is_capitalized == f.is_upper \/ f.is_title_case
    IN  IF fs * 10 >= body_text_size * 15
           \/ (fs * 10 >= body_text_size * 12 /\ is_bold)
        THEN "H1"
        ELSE IF \/ fs * 100 >= body_text_size * 115
                \/ (fs * 100 >= body_text_size * 105 /\ is_bold)
                \/ (is_capitalized /\ is_short)
        THEN "H2"
        ELSE IF is_bold /\ is_short /\ fs * 100 >= body_text_size * 95
        THEN "H3"
        ELSE "none"

ModuleCandidate(block, body_text_size) ==
    [level      |-> ModuleLevel(block, body_text_size),
     text       |-> Facts(block.text).text,
     page       |-> block.page,
     font_size  |-> block.font_size,
     size_ratio |-> <<block.font_size, body_text_size>>,
     is_bold    |-> IsBoldFlag(block.font_flags)]

\* heading_candidates.sort(key=lambda x: (x["page"], -x["font_size"]))
ModuleSort(cands) ==
    StableSort(cands,
        List([i \in 1..Len(cands) |-> <<cands[i].page, 0 - cands[i].font_size>>]))

CleanHeading(h) == [level |-> h.level, text |-> h.text, page |-> h.page]

\* body_text_size = max(size_counts, key=size_counts.get): the first size,
\* in order of first occurrence, whose count is maximal
ModuleBodySize(blocks) ==
    MostCommon(List([i \in 1..Len(blocks) |-> blocks[i].font_size]))

\* the blocks the candidate loop turns into headings, in block order
ModuleKept(blocks) ==
    LET body_text_size == ModuleBodySize(blocks)
        title == ModuleTitle(blocks)
    IN  SelectSeq(blocks,
            LAMBDA b : b.text # title
                       /\ ModuleLevel(b, body_text_size) # "none")

_identify_headings(blocks, config) ==
    IF blocks = <<>> THEN [title |-> TxtUntitled, outline |-> <<>>]
    ELSE
      LET body_text_size == ModuleBodySize(blocks)
          title == ModuleTitle(blocks)
          kept == ModuleKept(blocks)
          heading_candidates ==
              List([i \in 1..Len(kept) |-> ModuleCandidate(kept[i], body_text_size)])
          max_headings == config.MAX_HEADINGS_PER_DOCUMENT
          final_headings == SliceTo(ModuleSort(heading_candidates), max_headings)
      IN  [title   |-> title,
           outline |-> List([i \in 1..Len(final_headings) |->
                                CleanHeading(final_headings[i])])]

_analyze_pdf_structure(spans, config) ==
    _identify_headings(ModuleBlocks(spans), config)

(***************************************************************************)
(* Saving the result of the script pipeline: save_result and               *)
(* _create_final_json_output.                                              *)
(***************************************************************************)
TxtDotPdf  == <<".","p","d","f">>
TxtDotJson == <<".","j","s","o","n">>

\* the names of the PDF files handed to save_result
NameTest  == <<"t","e","s","t",".","p","d","f">>
NameTwice == <<"v",".","p","d","f",".","p","d","f">>
NameUpper == <<"Q",".","P","D","F">>
FileNames == {NameTest, NameTwice, NameUpper}

\* str.replace(old, new): every occurrence of old, from left to right
RECURSIVE replace(_, _, _)
replace(t, old, new) ==
    IF Len(t) < Len(old) THEN t
    ELSE IF startswith(t, old)
    THEN new \o replace(SubSeq(t, Len(old) + 1, Len(t)), old, new)
    ELSE <<t[1]>> \o replace(Tail(t), old, new)

\* Path.stem: the name without its last suffix
stem(name) ==
    LET dots == {i \in 1..Len(name) : name[i] = "."}
        i == IF dots = {} THEN 0 ELSE SeqMax(dots)
    IN  IF 1 < i /\ i < Len(name) THEN SubSeq(name, 1, i - 1) ELSE name

\* dict.get(key, default)
Get(d, key, default) == IF key \in DOMAIN d THEN d[key] ELSE default

\* the final JSON with every field of each heading kept
_create_final_json_output_AllFields(title, headings) ==
    [title |-> title, outline |-> headings]

_create_final_json_output(title, headings) ==
    [title   |-> title,
     outline |-> List([i \in 1..Len(headings) |->
                    [level |-> headings[i].level,
                     text  |-> headings[i].text,
                     page  |-> headings[i].page]])]

\* the JSON that save_result dumps for a result
FinalJsonOf(result) ==
    LET structural_outline == Get(result, "structural_outline", <<>>)
        title == Get(structural_outline, "title", TxtUntitled)
        headings == Get(structural_outline, "headings", <<>>)
    IN  _create_final_json_output(title, headings)

\* the file save_result writes
OutputFile(result, pdf_filename) ==
    [name |-> replace(pdf_filename, TxtDotPdf, TxtDotJson),
     data |-> FinalJsonOf(result)]

(***************************************************************************)
(* State.                                                                  *)
(***************************************************************************)
VARIABLES
    doc,                  \* the spans of the PDF, in page order
    run_len,              \* length of the repetition the document contains
    pc,                   \* position of the analysis
    runs,                 \* number of script pipeline runs started
    text_blocks,          \* result of _extract_text_blocks
    font_analysis,        \* result of _analyze_font_styles
    heading_candidates,   \* result of _filter_heading_candidates
    classified_headings,  \* result of _classify_heading_levels
    document_title,       \* result of _identify_document_title
    structural_outline,   \* result of _extract_headings_from_blocks
    first_outline,        \* the outline of the first run
    module_result,        \* result of PDFAnalyzer._analyze_pdf_structure
    pdf_filename,         \* the file name given to save_result
    output_files,         \* the files of the output directory
    save_returned,        \* the value save_result returned, once it was called
    config,               \* the Config of the PDFAnalyzer
    validation,           \* outcome of Config.validate
    batch,                \* the counters of process_all_pdfs and the exit status
    multi,                \* the call of PDFAnalyzer.analyze_multiple_pdfs
    call,                 \* a call of a function under with_timeout and with_retry
    breaker               \* a CircuitBreaker and the clock

vars == <<doc, run_len, pc, runs, text_blocks, font_analysis,
          heading_candidates, classified_headings, document_title,
          structural_outline, first_outline, module_result,
          pdf_filename, output_files, save_returned, config, validation,
          batch, multi, call, breaker>>

saveVars == <<pdf_filename, output_files, save_returned>>
configVars == <<config, validation>>
\* the state of the calls into docudots_module
libraryVars == <<multi, call, breaker>>
serviceVars == <<batch, libraryVars>>
\* the state of one analysis by the script
pipelineVars == <<doc, run_len, pc, runs, text_blocks, font_analysis,
                  heading_candidates, classified_headings, document_title,
                  structural_outline, first_outline, module_result>>

(***************************************************************************)
(* Initial state and the steps of the reader and of the two pipelines.     *)
(***************************************************************************)
NoValue == [none |-> TRUE]

\* the summary analyze_multiple_pdfs starts with
NoResults == [total_files |-> 0, processed |-> 0, errors |-> 0,
              success_rate |-> 0, results |-> {}, error_details |-> <<>>]

\* no decorated function has been called: the process has the default
\* SIGALRM handler and no pending alarm
NoCall ==
    [state |-> "idle", impl |-> "module", timed |-> FALSE,
     max_attempts |-> 1, delay |-> 1, backoff |-> 1,
     attempt |-> 0, outcomes |-> <<>>, waits |-> <<>>,
     last_exception |-> "", raised |-> "",
     handler |-> "SIG_DFL", handler_before |-> "SIG_DFL",
     old_handler |-> "", alarm |-> FALSE, alarm_fired |-> FALSE]

\* CircuitBreaker.__init__; the clock starts at 0
NoTime == 0 - 1
NewBreaker(impl, failure_threshold, timeout) ==
    [impl |-> impl, failure_threshold |-> failure_threshold,
     timeout |-> timeout, failure_count |-> 0,
     last_failure_time |-> NoTime, state |-> "CLOSED",
     now |-> 0, phase |-> "new", last_call |-> "none", streak |-> 0,
     before |-> [state |-> "CLOSED", failure_count |-> 0,
                 last_failure_time |-> NoTime, now |-> 0]]

\* the exit status of a process that has not exited
NoExit == 0 - 1

Init ==
    /\ doc = <<>>
    /\ run_len = 0
    /\ pc = "reading"
    /\ runs = 0
    /\ text_blocks = <<>>
    /\ font_analysis = NoValue
    /\ heading_candidates = <<>>
    /\ classified_headings = <<>>
    /\ document_title = TxtEmpty
    /\ structural_outline = NoValue
    /\ first_outline = NoValue
    /\ module_result = NoValue
    /\ pdf_filename = TxtEmpty
    /\ output_files = {}
    /\ save_returned = FALSE
    /\ config = Config(DefaultEnvironment)
    /\ validation = NoValue
    /\ batch = [files |-> 0, processed_count |-> 0, error_count |-> 0,
                failed_analyses |-> 0, exit_status |-> NoExit]
    /\ multi = [state |-> "idle", pdf_paths |-> <<>>, output_dir |-> FALSE,
                next |-> 1, results |-> NoResults, saved |-> {},
                raised |-> ""]
    /\ call = NoCall
    /\ breaker = NewBreaker("module", 1, 1)

\* pages are read in increasing order
InPageOrder(sp) ==
    IF doc = <<>> THEN TRUE ELSE doc[Len(doc)].page_num <= sp.page_num

\* the reader delivers one more span
ReadSpan(sp, limit) ==
    /\ pc = "reading"
    /\ Len(doc) - run_len < limit
    /\ InPageOrder(sp)
    /\ doc' = Append(doc, sp)
    /\ UNCHANGED <<run_len, pc, runs, text_blocks, font_analysis,
                   heading_candidates, classified_headings, document_title,
                   structural_outline, first_outline, module_result,
                   saveVars, configVars, serviceVars>>

\* the reader delivers n copies of one span
ReadRun(sp, n) ==
    /\ pc = "reading"
    /\ run_len = 0
    /\ InPageOrder(sp)
    /\ doc' = doc \o [i \in 1..n |-> sp]
    /\ run_len' = n
    /\ UNCHANGED <<pc, runs, text_blocks, font_analysis,
                   heading_candidates, classified_headings, document_title,
                   structural_outline, first_outline, module_result,
                   saveVars, configVars, serviceVars>>

\* analyze_pdf_structure, step 3
ExtractTextBlocks ==
    /\ pc = "reading"
    /\ text_blocks' = _extract_text_blocks(doc)
    /\ runs' = 1
    /\ pc' = "extracted"
    /\ UNCHANGED <<doc, run_len, font_analysis, heading_candidates,
                   classified_headings, document_title, structural_outline,
                   first_outline, module_result,
                   saveVars, configVars, serviceVars>>

\* fitz.open raises (no file, or not a PDF): analyze_pdf_structure ends
\* with the error result
OpenFails ==
    /\ pc = "reading"
    /\ doc = <<>>
    /\ pc' = "error"
    /\ structural_outline' = ErrorOutline("cannot open file")
    /\ UNCHANGED <<doc, run_len, runs, text_blocks, font_analysis,
                   heading_candidates, classified_headings, document_title,
                   first_outline, module_result,
                   saveVars, configVars, serviceVars>>

\* _extract_headings_from_blocks on no text blocks
ExtractHeadingsEmpty ==
    /\ pc = "extracted"
    /\ text_blocks = <<>>
    /\ structural_outline' = EmptyOutline
    /\ pc' = "done"
    /\ UNCHANGED <<doc, run_len, runs, text_blocks, font_analysis,
                   heading_candidates, classified_headings, document_title,
                   first_outline, module_result,
                   saveVars, configVars, serviceVars>>

AnalyzeFontStyles ==
    /\ pc = "extracted"
    /\ text_blocks # <<>>
    /\ font_analysis' = _analyze_font_styles(text_blocks)
    /\ pc' = "analyzed"
    /\ UNCHANGED <<doc, run_len, runs, text_blocks, heading_candidates,
                   classified_headings, document_title, structural_outline,
                   first_outline, module_result,
                   saveVars, configVars, serviceVars>>

\* the filter step appending to the candidates of the previous run
FilterHeadingCandidates_Accumulating ==
    /\ pc = "analyzed"
    /\ IF FilterDividesByZero(text_blocks, font_analysis)
       THEN /\ pc' = "error"
            /\ structural_outline' = ErrorOutline("float division by zero")
            /\ UNCHANGED heading_candidates
       ELSE /\ pc' = "filtered"
            /\ heading_candidates' =
                   SortCandidates(heading_candidates
                                  \o ScanCandidates(text_blocks, font_analysis))
            /\ UNCHANGED structural_outline
    /\ UNCHANGED <<doc, run_len, runs, text_blocks, font_analysis,
                   classified_headings, document_title,
                   first_outline, module_result,
                   saveVars, configVars, serviceVars>>

\* the filter step; an exception it raises ends analyze_pdf_structure with
\* the error result
FilterHeadingCandidates ==
    /\ pc = "analyzed"
    /\ IF FilterDividesByZero(text_blocks, font_analysis)
       THEN /\ pc' = "error"
            /\ structural_outline' = ErrorOutline("float division by zero")
            /\ UNCHANGED heading_candidates
       ELSE /\ pc' = "filtered"
            /\ heading_candidates' =
                   _filter_heading_candidates(text_blocks, font_analysis)
            /\ UNCHANGED structural_outline
    /\ UNCHANGED <<doc, run_len, runs, text_blocks, font_analysis,
                   classified_headings, document_title,
                   first_outline, module_result,
                   saveVars, configVars, serviceVars>>

ClassifyHeadingLevels ==
    /\ pc = "filtered"
    /\ classified_headings' = _classify_heading_levels(heading_candidates, font_analysis)
    /\ pc' = "classified"
    /\ UNCHANGED <<doc, run_len, runs, text_blocks, font_analysis,
                   heading_candidates, document_title, structural_outline,
                   first_outline, module_result,
                   saveVars, configVars, serviceVars>>

IdentifyDocumentTitle ==
    /\ pc = "classified"
    /\ document_title' = _identify_document_title(text_blocks)
    /\ pc' = "titled"
    /\ UNCHANGED <<doc, run_len, runs, text_blocks, font_analysis,
                   heading_candidates, classified_headings, structural_outline,
                   first_outline, module_result,
                   saveVars, configVars, serviceVars>>

AssembleOutline ==
    /\ pc = "titled"
    /\ structural_outline' = Outline(document_title, classified_headings,
                                     heading_candidates, font_analysis)
    /\ pc' = "done"
    /\ UNCHANGED <<doc, run_len, runs, text_blocks, font_analysis,
                   heading_candidates, classified_headings, document_title,
                   first_outline, module_result,
                   saveVars, configVars, serviceVars>>

\* _extract_headings_from_blocks is called again on the same text blocks
RunAgain ==
    /\ pc = "done"
    /\ runs < MaxRuns
    /\ first_outline' = IF runs = 1 THEN structural_outline ELSE first_outline
    /\ runs' = runs + 1
    /\ pc' = "extracted"
    /\ UNCHANGED <<doc, run_len, text_blocks, font_analysis, heading_candidates,
                   classified_headings, document_title, structural_outline,
                   module_result,
                   saveVars, configVars, serviceVars>>

\* PDFAnalyzer._analyze_pdf_structure on the same document
ModuleAnalyze ==
    /\ pc = "reading"
    /\ module_result' = _analyze_pdf_structure(doc, config)
    /\ pc' = "module_done"
    /\ UNCHANGED <<doc, run_len, runs, text_blocks, font_analysis,
                   heading_candidates, classified_headings, document_title,
                   structural_outline, first_outline,
                   saveVars, configVars, serviceVars>>

\* len(doc) of the opened document
TotalPages == IF doc = <<>> THEN 0 ELSE doc[Len(doc)].page_num + 1

\* the error result reporting the pages of the document
AnalysisResult_PagesOfDocument(filename) ==
    [document_info |->
         [filename |-> filename, total_pages |-> TotalPages,
          title |-> structural_outline.title,
          processing_timestamp |-> NoValue] @@
         (IF "error" \in DOMAIN structural_outline
          THEN [error |-> structural_outline.error] ELSE <<>>),
     structural_outline |-> structural_outline,
     text_blocks_summary |->
         [total_blocks |-> Len(text_blocks),
          sample_blocks |-> Take(text_blocks, 5)]]

\* the result analyze_pdf_structure returns for the file: the result of a
\* completed analysis, or the error result
AnalysisResult(filename) ==
    IF "error" \in DOMAIN structural_outline
    THEN [document_info |->
              [filename |-> filename, total_pages |-> 0, title |-> TxtErrorTitle,
               processing_timestamp |-> NoValue,
               error |-> structural_outline.error],
          structural_outline |-> structural_outline,
          text_blocks_summary |-> [total_blocks |-> 0, sample_blocks |-> <<>>]]
    ELSE [document_info |->
              [filename |-> filename, total_pages |-> TotalPages,
               title |-> structural_outline.title,
               processing_timestamp |-> NoValue],
          structural_outline |-> structural_outline,
          text_blocks_summary |->
              [total_blocks |-> Len(text_blocks),
               sample_blocks |-> Take(text_blocks, 5)]]

\* save_result of the result for the file; the write succeeds, or raises
\* and save_result returns False
SaveResult ==
    /\ pc \in {"done", "error"}
    /\ \E name \in FileNames, written \in BOOLEAN :
          /\ pdf_filename' = name
          /\ save_returned' = written
          /\ output_files' =
                 IF written
                 THEN output_files \cup {OutputFile(AnalysisResult(name), name)}
                 ELSE output_files
    /\ pc' = "saved"
    /\ UNCHANGED <<doc, run_len, runs, text_blocks, font_analysis,
                   heading_candidates, classified_headings, document_title,
                   structural_outline, first_outline, module_result,
                   configVars, serviceVars>>

\* a Config is created in an environment that sets one variable
CreateConfig(env) ==
    /\ pc = "reading"
    /\ doc = <<>>
    /\ validation = NoValue
    /\ config = Config(DefaultEnvironment)
    /\ config' = Config(env)
    /\ UNCHANGED <<doc, run_len, pc, runs, text_blocks, font_analysis,
                   heading_candidates, classified_headings, document_title,
                   structural_outline, first_outline, module_result,
                   saveVars, validation, serviceVars>>

\* Config.validate is called
ValidateConfig ==
    /\ pc = "reading"
    /\ doc = <<>>
    /\ validation = NoValue
    /\ validation' = ConfigValidate(config)
    /\ UNCHANGED <<doc, run_len, pc, runs, text_blocks, font_analysis,
                   heading_candidates, classified_headings, document_title,
                   structural_outline, first_outline, module_result,
                   saveVars, config, serviceVars>>

\* process_all_pdfs, the end of the loop body: the file counts as processed
\* when save_result returned True, as an error otherwise
CountFile ==
    /\ pc = "saved"
    /\ batch' = [batch EXCEPT
                    !.files = @ + 1,
                    !.processed_count = IF save_returned THEN @ + 1 ELSE @,
                    !.error_count = IF save_returned THEN @ ELSE @ + 1,
                    !.failed_analyses =
                        IF "error" \in DOMAIN structural_outline THEN @ + 1 ELSE @]
    /\ pc' = "counted"
    /\ UNCHANGED <<doc, run_len, runs, text_blocks, font_analysis,
                   heading_candidates, classified_headings, document_title,
                   structural_outline, first_outline, module_result,
                   saveVars, configVars, libraryVars>>

\* process_all_pdfs, the next turn of the loop: analyze_pdf_structure
\* starts on the next file with a result of its own
NextFile ==
    /\ pc = "counted"
    /\ batch.files < MaxFiles
    /\ pc' = "reading"
    /\ doc' = <<>>
    /\ run_len' = 0
    /\ runs' = 0
    /\ text_blocks' = <<>>
    /\ structural_outline' = NoValue
    /\ first_outline' = NoValue
    /\ UNCHANGED <<font_analysis, heading_candidates, classified_headings,
                   document_title, module_result, saveVars, configVars,
                   serviceVars>>

\* main: process_all_pdfs returns its summary (at once when there is no
\* file) and the process exits with status 1 when the summary has errors
MainExit ==
    /\ \/ pc = "counted"
       \/ pc = "reading" /\ doc = <<>> /\ batch.files = 0
    /\ batch' = [batch EXCEPT
                    !.exit_status = IF batch.error_count > 0 THEN 1 ELSE 0]
    /\ pc' = "exited"
    /\ UNCHANGED <<doc, run_len, runs, text_blocks, font_analysis,
                   heading_candidates, classified_headings, document_title,
                   structural_outline, first_outline, module_result,
                   saveVars, configVars, libraryVars>>

\* the script pipeline and the module pipeline
Analyze ==
    \/ OpenFails
    \/ ExtractTextBlocks
    \/ ExtractHeadingsEmpty
    \/ AnalyzeFontStyles
    \/ FilterHeadingCandidates
    \/ ClassifyHeadingLevels
    \/ IdentifyDocumentTitle
    \/ AssembleOutline
    \/ RunAgain
    \/ SaveResult
    \/ ModuleAnalyze

\* documents of up to MaxBlocks spans
Next ==
    \/ \E sp \in SpanPool : ReadSpan(sp, MaxBlocks)
    \/ Analyze

Spec == Init /\ [][Next]_vars

\* documents with one long repetition of a span
NextLong ==
    \/ \E sp \in LongPool : ReadSpan(sp, MaxExtra)
    \/ \E sp \in RunPool, n \in RunLengths : ReadRun(sp, n)
    \/ Analyze

SpecLong == Init /\ [][NextLong]_vars

\* documents made of the spans that meet the limits of the candidate filter
NextFilter ==
    \/ \E sp \in FilterPool : ReadSpan(sp, MaxBlocks)
    \/ Analyze

SpecFilter == Init /\ [][NextFilter]_vars

\* documents made of the spans that meet the cases of the title selection
NextTitle ==
    \/ \E sp \in TitlePool : ReadSpan(sp, MaxBlocks)
    \/ Analyze

SpecTitle == Init /\ [][NextTitle]_vars

\* documents whose spans start with numbering markers
NextMarker ==
    \/ \E sp \in MarkerPool : ReadSpan(sp, MaxBlocks)
    \/ Analyze

SpecMarker == Init /\ [][NextMarker]_vars

\* the files of an input directory, processed one after the other
NextBatch ==
    \/ \E sp \in BatchPool : ReadSpan(sp, MaxBatchBlocks)
    \/ Analyze
    \/ CountFile
    \/ NextFile
    \/ MainExit

SpecBatch == Init /\ [][NextBatch]_vars

(***************************************************************************)
(* PDFAnalyzer.analyze_multiple_pdfs of docudots_module.                   *)
(***************************************************************************)
\* the state the script, its batch loop and its configuration keep
scriptVars == <<pipelineVars, saveVars, configVars, batch>>

\* a path: the name, whether a file is there, its size and its spans
PdfFile(name, exists, file_size, spans) ==
    [name |-> name, exists |-> exists, file_size |-> file_size,
     spans |-> spans]

FileGood    == PdfFile(NameTest,  TRUE,  1, <<SpanTitle, SpanBody>>)
FileMissing == PdfFile(NameTwice, FALSE, 0, <<>>)
FileEmpty   == PdfFile(NameUpper, TRUE,  0, <<>>)
PathPool == {FileGood, FileMissing, FileEmpty}
MaxPaths == 3

\* InputValidator.validate_pdf_file: the exception it raises, "" for none
validate_pdf_file(pdf_path) ==
    IF ~pdf_path.exists THEN "PDFValidationError"
    ELSE IF pdf_path.file_size = 0 THEN "PDFEmptyError"
    ELSE ""

\* PDFAnalyzer.analyze_pdf: validation, then the analysis; every exception
\* is logged and raised again
analyze_pdf(pdf_path) ==
    LET invalid == validate_pdf_file(pdf_path)
    IN  IF invalid # ""
        THEN [raised |-> invalid, result |-> <<>>]
        ELSE [raised |-> "",
              result |-> <<_analyze_pdf_structure(pdf_path.spans,
                                                  Config(DefaultEnvironment))>>]

\* the call: the summary starts with the number of paths
AnalyzeMultiplePdfs(pdf_paths, output_dir) ==
    /\ multi.state = "idle"
    /\ multi' = [multi EXCEPT
                    !.state = "looping",
                    !.pdf_paths = pdf_paths,
                    !.output_dir = output_dir,
                    !.next = 1,
                    !.results = [NoResults EXCEPT
                                    !.total_files = Len(pdf_paths)]]
    /\ UNCHANGED <<scriptVars, call, breaker>>

\* one turn of the loop: the result is kept under the file name and counted,
\* or the exception is counted and described
AnalyzeNextPath ==
    /\ multi.state = "looping"
    /\ multi.next <= Len(multi.pdf_paths)
    /\ LET pdf_path == multi.pdf_paths[multi.next]
           outcome == analyze_pdf(pdf_path)
       IN  multi' =
             IF outcome.raised = ""
             THEN [multi EXCEPT
                     !.next = @ + 1,
                     !.saved = IF multi.output_dir
                               THEN @ \cup {stem(pdf_path.name) \o TxtDotJson}
                               ELSE @,
                     !.results.results =
                         {r \in @ : r[1] # pdf_path.name}
                             \cup {<<pdf_path.name, outcome.result>>},
                     !.results.processed = @ + 1]
             ELSE [multi EXCEPT
                     !.next = @ + 1,
                     !.results.errors = @ + 1,
                     !.results.error_details =
                         Append(@, [file |-> pdf_path.name,
                                    type |-> outcome.raised])]
    /\ UNCHANGED <<scriptVars, call, breaker>>

\* after the loop: the success rate (here in hundredths of a percent) is
\* processed / total_files * 100, a division by zero for an empty list
ReturnSummary ==
    /\ multi.state = "looping"
    /\ multi.next > Len(multi.pdf_paths)
    /\ multi' =
         IF multi.results.total_files = 0
         THEN [multi EXCEPT !.state = "raised", !.raised = "ZeroDivisionError"]
         ELSE [multi EXCEPT
                 !.state = "returned",
                 !.results.success_rate =
                     (multi.results.processed * 10000)
                         \div multi.results.total_files]
    /\ UNCHANGED <<scriptVars, call, breaker>>

PathLists == UNION {[1..n -> PathPool] : n \in 0..MaxPaths}

NextMulti ==
    \/ \E pdf_paths \in PathLists, output_dir \in BOOLEAN :
          AnalyzeMultiplePdfs(List(pdf_paths), output_dir)
    \/ AnalyzeNextPath
    \/ ReturnSummary

SpecMulti == Init /\ [][NextMulti]_vars

(***************************************************************************)
(* The retry and timeout decorators: with_retry and with_timeout of        *)
(* docudots_module/retry.py ("module"), retry and timeout of               *)
(* src/utils/retry.py ("utils").  A timed call has the timeout decorator   *)
(* outside the retry decorator, as PDFAnalyzer._analyze_pdf_with_retry.    *)
(***************************************************************************)
MaxAttempts == 3
Implementations == {"module", "utils"}
Delays == {1, 2}
Backoffs == {2, 3}
\* the SIGALRM handlers a caller may have installed
Handlers == {"SIG_DFL", "SIG_IGN", "caller_handler"}
\* what the wrapped function raises by itself; the last is no Exception
FunctionExceptions == {"PDFAnalysisError", "PDFProcessingError",
                       "KeyboardInterrupt"}

RECURSIVE Pow(_, _)
Pow(b, k) == IF k = 0 THEN 1 ELSE b * Pow(b, k - 1)

\* the wait after the failed attempt, linear in the attempt
wait_time_Linear(delay, backoff, attempt) == delay * backoff * attempt

\* wait_time = delay * (backoff ** attempt); retry has no delay
wait_time(delay, backoff, attempt) == delay * Pow(backoff, attempt)

\* bool(old_handler): signal.SIG_DFL is the enum member of value 0
Truthy(old_handler) == old_handler \notin {"", "SIG_DFL"}

\* the exception timeout_handler raises
TimeoutException(impl) ==
    IF impl = "module" THEN "AnalysisTimeoutError" ELSE "TimeoutError"

\* except exceptions, with the default (Exception,)
Retryable(exc) == exc # "KeyboardInterrupt"

\* the finally block of the timeout decorator
Cleanup(c) ==
    IF ~c.timed THEN c
    ELSE [c EXCEPT
            !.alarm = FALSE,
            !.handler = IF c.impl = "utils" \/ Truthy(c.old_handler)
                        THEN c.old_handler
                        ELSE @]

\* the call returns through the timeout decorator
Returned(c) == [Cleanup(c) EXCEPT !.state = "returned"]

\* the call raises through the timeout decorator: with_timeout raises
\* AnalysisTimeoutError again, timeout turns its TimeoutError into a
\* ResourceLimitError
Raised(c, exc) ==
    [Cleanup(c) EXCEPT
        !.state = "raised",
        !.raised = IF c.timed /\ c.impl = "utils" /\ exc = "TimeoutError"
                   THEN "ResourceLimitError"
                   ELSE exc]

\* what is raised after the last attempt: with_retry raises last_exception,
\* retry raises it only if it is a PDFProcessingError and a new
\* PDFProcessingError from it otherwise
Exhausted(impl, last_exception) ==
    IF impl = "module" \/ last_exception = "PDFProcessingError"
    THEN last_exception
    ELSE "PDFProcessingError"

\* the except branch of the retry loop, after the attempt raised exc
AfterFailure(c, exc) ==
    IF ~Retryable(exc) THEN Raised(c, exc)
    ELSE IF c.attempt = c.max_attempts - 1
    THEN Raised([c EXCEPT !.last_exception = exc], Exhausted(c.impl, exc))
    ELSE [c EXCEPT
            !.last_exception = exc,
            !.waits = Append(@, wait_time(c.delay, c.backoff, c.attempt)),
            !.state = "sleep"]

\* the decorated function is called: the timeout decorator installs its
\* handler and arms the alarm, the retry loop starts the first attempt
CallDecorated(impl, timed, max_attempts, delay, backoff, handler_before) ==
    /\ call.state = "idle"
    /\ impl = "utils" => delay = 1
    /\ call' = [NoCall EXCEPT
                  !.state = "attempt",
                  !.impl = impl,
                  !.timed = timed,
                  !.max_attempts = max_attempts,
                  !.delay = delay,
                  !.backoff = backoff,
                  !.handler_before = handler_before,
                  !.old_handler = IF timed THEN handler_before ELSE "",
                  !.handler = IF timed THEN "timeout_handler"
                              ELSE handler_before,
                  !.alarm = timed]
    /\ UNCHANGED <<scriptVars, multi, breaker>>

\* the wrapped function returns: the retry loop returns its result
AttemptReturns ==
    /\ call.state = "attempt"
    /\ call' = Returned([call EXCEPT !.outcomes = Append(@, "ok")])
    /\ UNCHANGED <<scriptVars, multi, breaker>>

\* the wrapped function raises
AttemptRaises(exc) ==
    /\ call.state = "attempt"
    /\ call' = AfterFailure([call EXCEPT !.outcomes = Append(@, exc)], exc)
    /\ UNCHANGED <<scriptVars, multi, breaker>>

\* time.sleep(wait_time) returns: the loop starts the next attempt
SleepEnds ==
    /\ call.state = "sleep"
    /\ call' = [call EXCEPT !.state = "attempt", !.attempt = @ + 1]
    /\ UNCHANGED <<scriptVars, multi, breaker>>

\* the alarm goes off and timeout_handler raises in the main thread: inside
\* time.sleep the exception leaves the retry loop; inside the wrapped
\* function it leaves the function as it is or as the function's own
\* exception (PDFAnalyzer._analyze_pdf_structure turns every Exception into
\* a PDFAnalysisError) and reaches the except branch of the retry loop
AlarmFires ==
    /\ call.alarm
    /\ call.handler = "timeout_handler"
    /\ LET c == [call EXCEPT !.alarm = FALSE, !.alarm_fired = TRUE]
           e == TimeoutException(call.impl)
       IN  \/ /\ call.state = "sleep"
              /\ call' = Raised(c, e)
           \/ /\ call.state = "attempt"
              /\ \E exc \in {e, "PDFAnalysisError"} :
                    call' = AfterFailure(
                                [c EXCEPT !.outcomes = Append(@, exc)], exc)
    /\ UNCHANGED <<scriptVars, multi, breaker>>

NextCall ==
    \/ \E impl \in Implementations, timed \in BOOLEAN,
          max_attempts \in 1..MaxAttempts, delay \in Delays,
          backoff \in Backoffs, handler_before \in Handlers :
          CallDecorated(impl, timed, max_attempts, delay, backoff,
                        handler_before)
    \/ AttemptReturns
    \/ \E exc \in FunctionExceptions : AttemptRaises(exc)
    \/ SleepEnds
    \/ AlarmFires

SpecCall == Init /\ [][NextCall]_vars

(***************************************************************************)
(* CircuitBreaker of docudots_module/retry.py ("module") and of            *)
(* src/utils/retry.py ("utils").  time.time() is the clock now; a call of  *)
(* the wrapper is the entry (CallWrapped) and the end of the wrapped       *)
(* function (FunctionReturns, FunctionRaises).                             *)
(***************************************************************************)
MaxTime == 3
Thresholds == {1, 2, 3}
Timeouts == {1, 2}

\* the reset attempted only after the timeout has passed
_should_attempt_reset_After(b) ==
    IF b.last_failure_time = NoTime THEN TRUE
    ELSE b.now - b.last_failure_time > b.timeout

_should_attempt_reset(b) ==
    IF b.last_failure_time = NoTime THEN TRUE
    ELSE b.now - b.last_failure_time >= b.timeout

\* _on_success, and the lines after func(...) in the utils wrapper
_on_success(b) ==
    IF b.impl = "module"
    THEN [b EXCEPT
            !.state = IF @ = "HALF_OPEN" THEN "CLOSED" ELSE @,
            !.failure_count = 0]
    ELSE IF b.state = "HALF_OPEN"
         THEN [b EXCEPT !.state = "CLOSED", !.failure_count = 0]
         ELSE b

\* _on_failure and _record_failure
_on_failure(b) ==
    [b EXCEPT
        !.failure_count = @ + 1,
        !.last_failure_time = b.now,
        !.state = IF b.failure_count + 1 >= b.failure_threshold
                  THEN "OPEN" ELSE @]

\* CircuitBreaker(failure_threshold, timeout)
CreateBreaker(impl, failure_threshold, timeout) ==
    /\ breaker.phase = "new"
    /\ breaker' = [NewBreaker(impl, failure_threshold, timeout) EXCEPT
                      !.phase = "ready"]
    /\ UNCHANGED <<scriptVars, multi, call>>

\* time passes
Tick ==
    /\ breaker.phase # "new"
    /\ breaker.now < MaxTime
    /\ breaker' = [breaker EXCEPT !.now = @ + 1]
    /\ UNCHANGED <<scriptVars, multi, call>>

\* the wrapper is called: an OPEN circuit moves to HALF_OPEN when the
\* reset is due and raises the circuit-open error otherwise
CallWrapped ==
    /\ breaker.phase = "ready"
    /\ LET b == [breaker EXCEPT
                   !.before = [state |-> breaker.state,
                               failure_count |-> breaker.failure_count,
                               last_failure_time |-> breaker.last_failure_time,
                               now |-> breaker.now]]
       IN  breaker' =
             IF b.state = "OPEN" /\ ~_should_attempt_reset(b)
             THEN [b EXCEPT !.last_call = "rejected"]
             ELSE [b EXCEPT
                     !.state = IF @ = "OPEN" THEN "HALF_OPEN" ELSE @,
                     !.phase = "invoking",
                     !.last_call = "invoking"]
    /\ UNCHANGED <<scriptVars, multi, call>>

\* the wrapped function returns
FunctionReturns ==
    /\ breaker.phase = "invoking"
    /\ breaker' = [_on_success(breaker) EXCEPT
                      !.phase = "ready",
                      !.last_call = "returned",
                      !.streak = 0]
    /\ UNCHANGED <<scriptVars, multi, call>>

\* the wrapped function raises an Exception
FunctionRaises ==
    /\ breaker.phase = "invoking"
    /\ breaker' = [_on_failure(breaker) EXCEPT
                      !.phase = "ready",
                      !.last_call = "raised",
                      !.streak = @ + 1]
    /\ UNCHANGED <<scriptVars, multi, call>>

NextBreaker ==
    \/ \E impl \in Implementations, failure_threshold \in Thresholds,
          timeout \in Timeouts :
          CreateBreaker(impl, failure_threshold, timeout)
    \/ Tick
    \/ CallWrapped
    \/ FunctionReturns
    \/ FunctionRaises

SpecBreaker == Init /\ [][NextBreaker]_vars

\* documents with spans whose font size rounds to 0.00
NextTiny ==
    \/ \E sp \in TinyPool : ReadSpan(sp, MaxBlocks)
    \/ Analyze

SpecTiny == Init /\ [][NextTiny]_vars

\* documents analysed by a PDFAnalyzer whose Config was created in any of
\* the environments
NextConfig ==
    \/ \E env \in Environments \ {DefaultEnvironment} : CreateConfig(env)
    \/ ValidateConfig
    \/ \E sp \in ConfigPool : ReadSpan(sp, MaxConfigBlocks)
    \/ Analyze

SpecConfig == Init /\ [][NextConfig]_vars

(***************************************************************************)
(* Properties.                                                             *)
(***************************************************************************)
Levels == {"H1", "H2", "H3"}

\* C1: the heading list of every produced outline has at most
\* max_headings_per_document (50) entries, in both pipelines.
C1_HeadingsWithinMaximum ==
    /\ pc = "done" =>
         Len(structural_outline.headings) <= MAX_HEADINGS_PER_DOCUMENT
    /\ pc = "module_done" =>
         Len(module_result.outline) <= MAX_HEADINGS_PER_DOCUMENT

\* a document with more spans than the maximum whose outline is cut to it
C1_Witness ==
    /\ pc = "module_done"
    /\ Len(doc) > MAX_HEADINGS_PER_DOCUMENT
    /\ Len(module_result.outline) = MAX_HEADINGS_PER_DOCUMENT

\* the vertical positions of the spans a module heading can stem from
ModuleYs(h) ==
    LET blocks == ModuleBlocks(doc)
    IN  {blocks[i].bbox[2] : i \in {j \in 1..Len(blocks) :
            blocks[j].text = h.text /\ blocks[j].page = h.page}}

\* C2: the headings of every produced outline are ordered by (page, y),
\* non-decreasing, in the script pipeline and in the module pipeline.
C2_HeadingsInReadingOrder ==
    /\ pc = "done" =>
         \A i \in 1..(Len(structural_outline.headings) - 1) :
            LET a == structural_outline.headings[i]
                b == structural_outline.headings[i + 1]
            IN  \/ a.page < b.page
                \/ (a.page = b.page /\ a.position.y <= b.position.y)
    /\ pc = "module_done" =>
         \A i \in 1..(Len(module_result.outline) - 1) :
            LET a == module_result.outline[i]
                b == module_result.outline[i + 1]
            IN  \/ a.page < b.page
                \/ (a.page = b.page
                    /\ \E ya \in ModuleYs(a), yb \in ModuleYs(b) : ya <= yb)

\* C3: every heading of every produced outline has a level in {H1, H2, H3}
\* and a page >= 1, in the script pipeline and in the module pipeline.
C3_LevelsAndPages ==
    /\ pc = "done" =>
         \A i \in 1..Len(structural_outline.headings) :
            /\ structural_outline.headings[i].level \in Levels
            /\ structural_outline.headings[i].page >= 1
    /\ pc = "module_done" =>
         \A i \in 1..Len(module_result.outline) :
            /\ module_result.outline[i].level \in Levels
            /\ module_result.outline[i].page >= 1

\* C4: a document without spans yields the title "Untitled Document" and an
\* empty heading list, in the script pipeline and in the module pipeline.
C4_EmptyInput ==
    /\ (pc = "done" /\ text_blocks = <<>>) =>
         /\ structural_outline.title = TxtUntitled
         /\ structural_outline.headings = <<>>
    /\ (pc = "module_done" /\ doc = <<>>) =>
         /\ module_result.title = TxtUntitled
         /\ module_result.outline = <<>>

ScenarioDoc ==
    <<SpanTitle>> \o [i \in 1..BodyRun |-> SpanBody]
                  \o <<SpanIntro, SpanBackground>>

HeadingTriples(headings) ==
    [i \in 1..Len(headings) |->
        <<headings[i].level, headings[i].text, headings[i].page>>]

\* C6 as stated: on the documented scenario the title is "Machine Learning
\* in Healthcare" and the headings are exactly H1 "1. Introduction" page 2
\* and H2 "Background" page 2.
C6_ScenarioTwoHeadings ==
    (pc = "done" /\ doc = ScenarioDoc) =>
        /\ structural_outline.title = TxtMachineLearning
        /\ HeadingTriples(structural_outline.headings) =
               << <<"H1", TxtIntroduction, 2>>, <<"H2", TxtBackground, 2>> >>

\* C6 as amended: on the documented scenario the title is "Machine Learning
\* in Healthcare" and the headings are H1 "Machine Learning in Healthcare"
\* page 1, H1 "1. Introduction" page 2 and H1 "Background" page 2.
C6_ScenarioThreeHeadings ==
    (pc = "done" /\ doc = ScenarioDoc) =>
        /\ structural_outline.title = TxtMachineLearning
        /\ HeadingTriples(structural_outline.headings) =
               << <<"H1", TxtMachineLearning, 1>>,
                  <<"H1", TxtIntroduction, 2>>,
                  <<"H1", TxtBackground, 2>> >>

\* the pipeline has ended on the documented scenario
C6_Witness == pc = "done" /\ doc = ScenarioDoc /\ runs = 1

\* the level the classifier assigns to candidate i, before the refinement
AssignedLevel(i) ==
    ClassifiedHeading(heading_candidates[i], font_analysis).level

CandidateScores(i) ==
    LevelScores(heading_candidates[i], font_analysis.body_font_size)

\* the fallback rule as documented, for candidate i
StatedFallback(i) ==
    LET c == heading_candidates[i]
        body == font_analysis.body_font_size
        wc == Facts(c.text).word_count
    IN  IF c.font_size * 10 >= body * 15 \/ (c.is_bold /\ wc <= 2) THEN "H1"
        ELSE IF c.font_size * 10 >= body * 12 \/ (c.is_bold /\ wc <= 4) THEN "H2"
        ELSE "H3"

BeforeRefinement == ClassifyAndSort(heading_candidates, font_analysis)

\* the two corrections, decided on the levels of the list hs as given
SandwichedH1(hs, i) ==
    /\ 1 < i /\ i < Len(hs)
    /\ hs[i].level = "H1"
    /\ hs[i-1].level = "H3"
    /\ hs[i+1].level = "H3"
    /\ hs[i].classification_scores.h2 >= 15

SandwichedH3(hs, i) ==
    /\ 1 < i /\ i < Len(hs)
    /\ hs[i].level = "H3"
    /\ hs[i-1].level = "H2"
    /\ hs[i+1].level = "H2"
    /\ hs[i].classification_scores.h2 >= hs[i].classification_scores.h3

\* one pass in which every decision reads the classifier's levels only
SnapshotRefine(hs) ==
    [i \in 1..Len(hs) |->
        IF SandwichedH1(hs, i) \/ SandwichedH3(hs, i)
        THEN [hs[i] EXCEPT !.level = "H2"]
        ELSE hs[i]]

C9_OnlyTheTwoCorrections ==
    pc = "classified" =>
      LET before == BeforeRefinement
          after == classified_headings
      IN  /\ Len(after) = Len(before)
          /\ \A i \in 1..Len(before) :
                /\ after[i].text = before[i].text
                /\ after[i].page = before[i].page
                /\ after[i].position = before[i].position
                /\ after[i].classification_scores = before[i].classification_scores
                /\ (SandwichedH1(before, i) \/ SandwichedH3(before, i))
                       => after[i].level = "H2"
                /\ after[i].level # before[i].level
                       => (SandwichedH1(before, i) \/ SandwichedH3(before, i))
                /\ (i = 1 \/ i = Len(before)) => after[i].level = before[i].level

\* an H1 between two H3 has become H2
C9_Witness ==
    /\ pc = "classified"
    /\ \E i \in 1..Len(classified_headings) :
          /\ BeforeRefinement[i].level = "H1"
          /\ SandwichedH1(BeforeRefinement, i)
          /\ classified_headings[i].level = "H2"

\* the values of the sequence sizes with the highest number of occurrences
MostFrequent(sizes) ==
    {sizes[i] : i \in {j \in 1..Len(sizes) :
        \A k \in 1..Len(sizes) : Count(sizes, sizes[k]) <= Count(sizes, sizes[j])}}

\* the position of the first occurrence of v in the sequence sizes
FirstSeen(sizes, v) == SeqMin({i \in 1..Len(sizes) : sizes[i] = v})

\* the font sizes of the script's text blocks, of the module's blocks
ScriptSizes == FontSizes(text_blocks)
ModuleSizes ==
    LET blocks == ModuleBlocks(doc)
    IN  [i \in 1..Len(blocks) |-> blocks[i].font_size]

\* C10 as stated: the body size is the most frequent font size, the
\* smallest one when several sizes share the highest frequency, in the
\* script pipeline and in the module pipeline.
C10_SmallestOfMostFrequent ==
    /\ pc = "analyzed" =>
          font_analysis.body_font_size = SeqMin(MostFrequent(ScriptSizes))
    /\ (pc = "module_done" /\ doc # <<>>) =>
          ModuleBodySize(ModuleBlocks(doc)) = SeqMin(MostFrequent(ModuleSizes))

\* C10 as amended: the body size is a most frequent font size, and when
\* several sizes share the highest frequency it is the one whose first
\* span comes first in the document, in both pipelines.
C10_FirstSeenOfMostFrequent ==
    /\ pc = "analyzed" =>
          LET body == font_analysis.body_font_size
          IN  /\ body \in MostFrequent(ScriptSizes)
              /\ \A v \in MostFrequent(ScriptSizes) :
                    FirstSeen(ScriptSizes, body) <= FirstSeen(ScriptSizes, v)
    /\ (pc = "module_done" /\ doc # <<>>) =>
          LET body == ModuleBodySize(ModuleBlocks(doc))
          IN  /\ body \in MostFrequent(ModuleSizes)
              /\ \A v \in MostFrequent(ModuleSizes) :
                    FirstSeen(ModuleSizes, body) <= FirstSeen(ModuleSizes, v)

\* two sizes share the highest frequency and the body size is not the
\* smallest of them
C10_Witness ==
    /\ pc = "analyzed"
    /\ Cardinality(MostFrequent(ScriptSizes)) >= 2
    /\ font_analysis.body_font_size # SeqMin(MostFrequent(ScriptSizes))

\* the noise markers as documented
StatedNoiseMarkers ==
    { <<"f","i","g","u","r","e">>, <<"t","a","b","l","e">>, <<"p","a","g","e">>,
      <<"w","w","w",".">>, <<"h","t","t","p">>, <<"@">>,
      <<"c","o","p","y","r","i","g","h","t">>, <<"©">>,
      <<"e","t"," ","a","l",".">>, <<"i","b","i","d">> }

HasNoiseMarker(text) ==
    \E m \in StatedNoiseMarkers : Contains(lower(strip(text)), m)

\* a text the candidate filter has to keep out
IsNoise(text) ==
    \/ Len(strip(text)) < 3
    \/ Len(strip(text)) > 200
    \/ HasNoiseMarker(text)

\* C11: the candidate filter never emits a span whose stripped text has
\* fewer than 3 or more than 200 characters or contains a noise marker in
\* any letter case, and no such text is among the headings of the outline.
C11_NoNoiseAmongCandidates ==
    /\ pc = "filtered" =>
         \A i \in 1..Len(heading_candidates) : ~IsNoise(heading_candidates[i].text)
    /\ pc = "done" =>
         \A i \in 1..Len(structural_outline.headings) :
            ~IsNoise(structural_outline.headings[i].text)

\* a bold, large span with a capitalised noise marker and a span of a
\* rejected length were read, and another span of the document is a candidate
C11_Witness ==
    /\ pc = "filtered"
    /\ heading_candidates # <<>>
    /\ \E i \in 1..Len(text_blocks) :
          /\ HasNoiseMarker(text_blocks[i].text)
          /\ ~Contains(strip(text_blocks[i].text), <<"f","i","g","u","r","e">>)
          /\ text_blocks[i].is_bold
    /\ \E i \in 1..Len(text_blocks) :
          Len(text_blocks[i].text) > 200 \/ Len(text_blocks[i].text) < 3

\* text block b was emitted as a heading candidate
IsEmitted(b) ==
    \E i \in 1..Len(heading_candidates) :
        LET c == heading_candidates[i]
        IN  /\ c.text = b.text
            /\ c.font_size = b.font_size
            /\ c.is_bold = b.is_bold
            /\ c.page_number = b.page_number
            /\ c.position = b.position

\* the additive score of text block b is at least 25
ScoreAccepted(b) ==
    ScoreTimesBody(b, font_analysis.body_font_size)
        >= 25 * font_analysis.body_font_size

\* the documented eligibility test of the filter: larger than
\* max(1.1 * body, 1.05 * average), or bold and at least 0.9 * body, or
\* larger than 1.3 * average (sizes in hundredths of a point)
IsEligible(b) ==
    LET body == font_analysis.body_font_size
        avg == font_analysis.font_size_stats.average
    IN  \/ (10 * b.font_size > 11 * body /\ 100 * b.font_size > 105 * avg)
        \/ (b.is_bold /\ 10 * b.font_size >= 9 * body)
        \/ 10 * b.font_size > 13 * avg

\* C12 as stated: a span that matches no rejection rule is a heading
\* candidate exactly when its additive filter score is >= 25, and every
\* candidate carries a score >= 25.
C12_EmittedIffScore ==
    pc = "filtered" =>
      /\ \A i \in 1..Len(heading_candidates) :
            heading_candidates[i].heading_score >= 2500
      /\ \A i \in 1..Len(text_blocks) :
            ~IsNoise(text_blocks[i].text) =>
                (IsEmitted(text_blocks[i]) <=> ScoreAccepted(text_blocks[i]))

\* C12 as amended: a span that matches no rejection rule is a heading
\* candidate exactly when it passes the eligibility test on its font size
\* and weight and its additive filter score is >= 25, and every candidate
\* carries a score >= 25.
C12_EmittedIffEligibleAndScore ==
    pc = "filtered" =>
      /\ \A i \in 1..Len(heading_candidates) :
            heading_candidates[i].heading_score >= 2500
      /\ \A i \in 1..Len(text_blocks) :
            ~IsNoise(text_blocks[i].text) =>
                (IsEmitted(text_blocks[i]) <=>
                    (IsEligible(text_blocks[i]) /\ ScoreAccepted(text_blocks[i])))

\* one span was dropped for its score, one with a sufficient score was
\* dropped for its font, and one was emitted
C12_Witness ==
    /\ pc = "filtered"
    /\ \E i \in 1..Len(text_blocks) :
          /\ ~IsNoise(text_blocks[i].text)
          /\ IsEligible(text_blocks[i])
          /\ ~ScoreAccepted(text_blocks[i])
          /\ ~IsEmitted(text_blocks[i])
    /\ \E i \in 1..Len(text_blocks) :
          /\ ~IsNoise(text_blocks[i].text)
          /\ ~IsEligible(text_blocks[i])
          /\ ScoreAccepted(text_blocks[i])
          /\ ~IsEmitted(text_blocks[i])
    /\ \E i \in 1..Len(text_blocks) : IsEmitted(text_blocks[i])

\* C13 as stated: the filter score attached to every surviving candidate
\* lies between 0 and 100 inclusive (scores in hundredths).
C13_ScoreWithin100 ==
    pc = "filtered" =>
      \A i \in 1..Len(heading_candidates) :
         /\ heading_candidates[i].heading_score >= 0
         /\ heading_candidates[i].heading_score <= 10000

\* C13 as amended: the filter score attached to every surviving candidate
\* lies between 25 and 111 inclusive (scores in hundredths).
C13_ScoreWithin111 ==
    pc = "filtered" =>
      \A i \in 1..Len(heading_candidates) :
         /\ heading_candidates[i].heading_score >= 2500
         /\ heading_candidates[i].heading_score <= 11100

\* a candidate carries the highest score, 111
C13_Witness ==
    /\ pc = "filtered"
    /\ \E i \in 1..Len(heading_candidates) :
          heading_candidates[i].heading_score = 11100

\* the text blocks of pages 1 and 2, and those of them whose font size is
\* at least 95% of the largest
EarlyBlocks == {i \in 1..Len(text_blocks) : text_blocks[i].page_number <= 2}

SizeQualifying ==
    LET largest == SeqMax({text_blocks[i].font_size : i \in EarlyBlocks})
    IN  {i \in EarlyBlocks : 100 * text_blocks[i].font_size >= 95 * largest}

\* the size-qualifying blocks the scoring accepts
ScoredForTitle == {i \in SizeQualifying : ~IsSkippedTitle(text_blocks[i])}

\* the first of the accepted blocks with the highest title score
BestScored ==
    SeqMin({i \in ScoredForTitle :
               \A j \in ScoredForTitle :
                   TitleScore(text_blocks[j]) <= TitleScore(text_blocks[i])})

\* C14: the title is the stripped text of a span of pages 1-2 whose font
\* size is at least 95% of the largest there: the accepted one with the
\* highest score, the first one on equal score; the first size-qualifying
\* one when none is accepted; "Untitled Document" when pages 1-2 are empty.
C14_TitleSelection ==
    pc = "titled" =>
      IF EarlyBlocks = {} THEN document_title = TxtUntitled
      ELSE IF ScoredForTitle = {}
      THEN document_title = strip(text_blocks[SeqMin(SizeQualifying)].text)
      ELSE document_title = strip(text_blocks[BestScored].text)

\* two accepted blocks with different texts share the highest score, and
\* the title is the text of the first
C14_Witness ==
    /\ pc = "titled"
    /\ EarlyBlocks # {}
    /\ ScoredForTitle # {}
    /\ \E j \in ScoredForTitle :
          /\ j > BestScored
          /\ TitleScore(text_blocks[j]) = TitleScore(text_blocks[BestScored])
          /\ text_blocks[j].text # text_blocks[BestScored].text
    /\ document_title = text_blocks[BestScored].text

\* every size-qualifying block is rejected and the first one gives the title
C14_WitnessFallback ==
    /\ pc = "titled"
    /\ Cardinality(SizeQualifying) >= 2
    /\ ScoredForTitle = {}
    /\ document_title = text_blocks[SeqMin(SizeQualifying)].text

\* the document has spans but none on pages 1-2
C14_WitnessUntitled ==
    /\ pc = "titled"
    /\ EarlyBlocks = {}
    /\ document_title = TxtUntitled

\* the title the selection yields when Rejected(i) tells which of the
\* size-qualifying blocks are kept from scoring
TitleWhenRejecting(Rejected(_)) ==
    LET scored == {i \in SizeQualifying : ~Rejected(i)}
        best == SeqMin({i \in scored : \A j \in scored :
                   TitleScore(text_blocks[j]) <= TitleScore(text_blocks[i])})
    IN  IF scored = {}
        THEN strip(text_blocks[SeqMin(SizeQualifying)].text)
        ELSE strip(text_blocks[best].text)

\* rejection as stated: length < 5 or > 150, or one of the noise markers of
\* the candidate filter
StatedTitleRejection(i) ==
    LET text == strip(text_blocks[i].text)
    IN  Len(text) < 5 \/ Len(text) > 150 \/ HasNoiseMarker(text)

\* the markers the title selection looks for
TitleMarkers ==
    { <<"p","a","g","e">>, <<"f","i","g","u","r","e">>, <<"t","a","b","l","e">>,
      <<"a","b","s","t","r","a","c","t">>,
      <<"i","n","t","r","o","d","u","c","t","i","o","n">>,
      <<"w","w","w",".">>, <<"h","t","t","p">>, <<"@">>,
      <<"c","o","p","y","r","i","g","h","t">>, <<"©">> }

AmendedTitleRejection(i) ==
    LET text == strip(text_blocks[i].text)
    IN  \/ Len(text) < 5
        \/ Len(text) > 150
        \/ \E m \in TitleMarkers : Contains(lower(text), m)

\* C15 as stated: a size-qualifying block is kept from scoring exactly when
\* its text is shorter than 5 or longer than 150 characters or contains one
\* of figure, table, page, www., http, @, copyright, ©, et al., ibid; the
\* title is the one selected under this rejection.
C15_RejectionByFilterMarkers ==
    (pc = "titled" /\ EarlyBlocks # {}) =>
        document_title = TitleWhenRejecting(StatedTitleRejection)

\* C15 as amended: a size-qualifying block is kept from scoring exactly when
\* its text is shorter than 5 or longer than 150 characters or contains, in
\* any letter case, one of page, figure, table, abstract, introduction,
\* www., http, @, copyright, ©; the title is the one selected under this
\* rejection.
C15_RejectionByTitleMarkers ==
    (pc = "titled" /\ EarlyBlocks # {}) =>
        document_title = TitleWhenRejecting(AmendedTitleRejection)

\* a block with the word abstract lost the title to a block of lower score
C15_Witness ==
    /\ pc = "titled"
    /\ EarlyBlocks # {}
    /\ \E i \in SizeQualifying :
          /\ Contains(lower(text_blocks[i].text), <<"a","b","s","t","r","a","c","t">>)
          /\ \E j \in SizeQualifying :
                /\ document_title = text_blocks[j].text
                /\ TitleScore(text_blocks[j]) < TitleScore(text_blocks[i])

\* a block with the marker et al. gives the title
C15_WitnessEtAl ==
    /\ pc = "titled"
    /\ Cardinality(ScoredForTitle) >= 2
    /\ Contains(document_title, <<"e","t"," ","a","l",".">>)

\* the headings the module pipeline found, in (page, position) order
ModuleHeadingsInReadingOrder ==
    LET blocks == ModuleBlocks(doc)
        kept == ModuleKept(blocks)
        sorted == StableSort(kept,
                     [i \in 1..Len(kept) |-> <<kept[i].page, kept[i].bbox[2]>>] \o <<>>)
        body == ModuleBodySize(blocks)
    IN  [i \in 1..Len(sorted) |->
            [level |-> ModuleLevel(sorted[i], body),
             text  |-> sorted[i].text,
             page  |-> sorted[i].page]] \o <<>>

\* C16: the heading list is cut only when it is longer than the configured
\* maximum of 50, and then the earliest 50 headings in (page, position)
\* order are kept, in the script pipeline and in the module pipeline.
C16_EarliestHeadingsKept ==
    /\ (pc = "done" /\ text_blocks # <<>>) =>
         LET kept == structural_outline.headings
             n == Min2(Len(classified_headings), MAX_HEADINGS_PER_DOCUMENT)
         IN  /\ Len(kept) = n
             /\ \A i \in 1..Min2(n, Len(kept)) :
                   /\ kept[i].text = classified_headings[i].text
                   /\ kept[i].level = classified_headings[i].level
                   /\ kept[i].page = classified_headings[i].page
                   /\ kept[i].position.y = classified_headings[i].position.y
    /\ (pc = "module_done" /\ doc # <<>>) =>
         module_result.outline =
             SubSeq(ModuleHeadingsInReadingOrder, 1,
                    Min2(Len(ModuleHeadingsInReadingOrder),
                         MAX_HEADINGS_PER_DOCUMENT))

\* C17: the pipeline is total: no stage raises, whatever spans the document
\* has (none, or all of one font size), each stage of a non-empty document
\* hands a value to the next, and every candidate receives a level.
C17_PipelineTotal ==
    /\ pc = "error" => structural_outline.error = "cannot open file"
    /\ pc = "classified" =>
         /\ Len(classified_headings) = Len(heading_candidates)
         /\ \A i \in 1..Len(classified_headings) :
               classified_headings[i].level \in Levels
    /\ pc = "done" => structural_outline.headings \in Seq(
            [level : Levels, text : Texts, page : 1..3,
             position : [x : Int, y : Int]])

C19_SaveRetainsDocumentInfo ==
    pc = "saved" =>
        /\ save_returned
        /\ \E f \in output_files :
              /\ f.name = stem(pdf_filename) \o TxtDotJson
              /\ "document_info" \in DOMAIN f.data
              /\ f.data.document_info.filename = pdf_filename
              /\ "processing_timestamp" \in DOMAIN f.data.document_info

\* the values Config documents as valid: a non-negative threshold, a
\* positive number of headings, positive ratios, non-negative weights
ConfigInRange(c) ==
    /\ c.HEADING_SCORE_THRESHOLD >= 0
    /\ c.MAX_HEADINGS_PER_DOCUMENT > 0
    /\ \A k \in DOMAIN c.FONT_SIZE_RATIOS : c.FONT_SIZE_RATIOS[k] > 0
    /\ \A k \in DOMAIN c.PATTERN_WEIGHTS : c.PATTERN_WEIGHTS[k] >= 0

\* C20: no document is analysed while the threshold, the maximum number of
\* headings, a font-size ratio or a weight of the configuration is out of
\* range: such a configuration is rejected before any analysis.
C20_InvalidConfigNeverAnalysed ==
    pc = "module_done" => ConfigInRange(config)

SegmentBeforeDot(t) ==
    LET dots == {i \in 1..Len(t) : t[i] = "."}
    IN  IF dots = {} THEN t ELSE SubSeq(t, 1, SeqMin(dots) - 1)

\* the six whole-number factors of the filter score of candidate c; the
\* all-caps factor applies from length min_caps_length on, the numbering
\* factor reads the segment before the first '.', without its spaces or not
StatedFactors(c, min_caps_length, drop_spaces) ==
    LET t == c.text
        wc == word_count(t)
        segment == SegmentBeforeDot(t)
        digits == IF drop_spaces
                  THEN SelectSeq(segment, LAMBDA ch : ch # " ")
                  ELSE segment
    IN    (IF c.is_bold THEN 20 ELSE 0)
        + (IF wc <= 8 THEN 20 - 2 * wc ELSE 0)
        + (IF c.position.y < 20000 THEN 10 ELSE 0)
        + (IF t # <<>> /\ t[Len(t)] \in {".", "!", "?"} THEN 0 ELSE 5)
        + (IF isupper(t) /\ Len(t) >= min_caps_length /\ Len(t) < 50
           THEN 10 ELSE 0)
        + (IF isdigit(digits) THEN 8 ELSE 0)

\* the sum of the seven factors, rounded to hundredths
StatedScore(c, min_caps_length, drop_spaces) ==
    LET body == font_analysis.body_font_size
    IN  RoundDiv(100 * (Min2(40 * body, 20 * (c.font_size - body))
                        + StatedFactors(c, min_caps_length, drop_spaces) * body),
                 body)

\* C22 as stated: the filter score of every candidate is the sum of the
\* seven documented factors, with +10 for a fully uppercase text of any
\* length below 50 and +8 when the segment before the first '.' is purely
\* numeric.
C22_ScoreIsSumOfFactors ==
    pc = "filtered" =>
      \A i \in 1..Len(heading_candidates) :
         heading_candidates[i].heading_score
             = StatedScore(heading_candidates[i], 0, FALSE)

\* C22 as amended: the filter score of every candidate is the sum of the
\* seven factors rounded to two decimals, where the all-caps +10 needs a
\* length of 4 to 49 characters and the numbering +8 is given when the
\* segment before the first '.' consists of digits once its spaces are
\* removed.
C22_ScoreIsSumOfCodedFactors ==
    pc = "filtered" =>
      \A i \in 1..Len(heading_candidates) :
         heading_candidates[i].heading_score
             = StatedScore(heading_candidates[i], 4, TRUE)

\* the candidates include an uppercase text of three characters, a longer
\* uppercase text that starts with a number, and a number followed by a
\* space before the '.'
C22_Witness ==
    /\ pc = "filtered"
    /\ \E i \in 1..Len(heading_candidates) : heading_candidates[i].text = TxtThree
    /\ \E i \in 1..Len(heading_candidates) :
          heading_candidates[i].text = TxtNumberedCaps
    /\ \E i \in 1..Len(heading_candidates) :
          heading_candidates[i].text = TxtSpacedNumber

\* the contributions of every leading marker that matches the text
AllMarkerScores(t) ==
    VecAdd(IF MatchNumbered(t) THEN Vec(15, 20, 0) ELSE Vec(0, 0, 0),
    VecAdd(IF MatchDecimal(t) THEN Vec(0, 25, 10) ELSE Vec(0, 0, 0),
    VecAdd(IF MatchLettered(t) THEN Vec(0, 15, 20) ELSE Vec(0, 0, 0),
           IF MatchRoman(t) THEN Vec(0, 10, 15) ELSE Vec(0, 0, 0))))

\* the sum of the tabulated contributions of every cue that matches
\* classified heading h
AllCueScores(h) ==
    LET f == Facts(h.text)
    IN  VecAdd(PatternScores(f),
        VecAdd(PositionScores(h.position.y),
        VecAdd(LengthScores(f.word_count),
        VecAdd(SizeScores(h.font_size, font_analysis.body_font_size),
        VecAdd(BoldScores(h.is_bold),
        VecAdd(CapsScores(f),
        VecAdd(AllMarkerScores(h.text),
        VecAdd(ColonScores(f),
               InstitutionScores(f)))))))))

\* C23: h1, h2 and h3 of every candidate are non-negative integers equal
\* to the sum of the contributions of every cue that matches, every
\* matching leading marker included: none suppresses another.
C23_CuesAccumulate ==
    pc = "classified" =>
      \A i \in 1..Len(classified_headings) :
         LET scores == classified_headings[i].classification_scores
             all == AllCueScores(classified_headings[i])
         IN  /\ scores.h1 \in Nat /\ scores.h2 \in Nat /\ scores.h3 \in Nat
             /\ scores.h1 = all.h1
             /\ scores.h2 = all.h2
             /\ scores.h3 = all.h3

\* C29: a file counts as processed only if its analysis completed without
\* error and its JSON was saved; a file whose analysis ended with the error
\* result counts under errors, and then the process exits with status 1.
C29_FailedAnalysisCounted ==
    pc = "exited" =>
        /\ batch.processed_count <= batch.files - batch.failed_analyses
        /\ batch.failed_analyses > 0 =>
              (batch.error_count > 0 /\ batch.exit_status = 1)

\* C30: for every list of paths, the empty list included,
\* analyze_multiple_pdfs returns a summary and never raises; in the summary
\* processed + errors = total_files, error_details has one entry per failed
\* file, and the files after a failed one are still analysed.
C30_SummaryOfReturn ==
    multi.state = "returned" =>
        LET r == multi.results
            paths == multi.pdf_paths
            failed == {i \in 1..Len(paths) : analyze_pdf(paths[i]).raised # ""}
        IN  /\ r.total_files = Len(paths)
            /\ r.processed + r.errors = r.total_files
            /\ r.errors = Cardinality(failed)
            /\ Len(r.error_details) = r.errors
            /\ \A i \in failed :
                  \E j \in 1..Len(r.error_details) :
                     /\ r.error_details[j].file = paths[i].name
                     /\ r.error_details[j].type = analyze_pdf(paths[i]).raised
            /\ \A i \in (1..Len(paths)) \ failed :
                  \E p \in r.results : p[1] = paths[i].name

C30_SummaryForEveryList ==
    /\ multi.state # "raised"
    /\ C30_SummaryOfReturn

\* the same for the lists that have a path
C30_SummaryForNonEmptyList ==
    /\ multi.pdf_paths # <<>> => multi.state # "raised"
    /\ C30_SummaryOfReturn

\* the invocations of the wrapped function so far
Invocations(c) == Len(c.outcomes) + (IF c.state = "attempt" THEN 1 ELSE 0)

\* at most max_attempts invocations, none after a success whose result is
\* returned, and the wait delay * backoff^k after the failed attempt k and
\* before the next attempt only
RetryCounts(c) ==
    /\ Invocations(c) <= c.max_attempts
    /\ \A i \in 1..(Len(c.outcomes) - 1) : c.outcomes[i] # "ok"
    /\ c.state = "returned" <=>
          (c.outcomes # <<>> /\ c.outcomes[Len(c.outcomes)] = "ok")
    /\ Len(c.waits) <= c.max_attempts - 1
    /\ Len(c.waits) = IF c.state = "sleep" THEN Len(c.outcomes)
                      ELSE Invocations(c) - 1
    /\ \A k \in 1..Len(c.waits) :
          /\ c.waits[k] = c.delay * Pow(c.backoff, k - 1)
          /\ c.outcomes[k] # "ok"

C24_WithRetryAsStated ==
    (call.state # "idle" /\ ~call.alarm_fired /\ call.impl = "module") =>
        /\ RetryCounts(call)
        /\ call.state = "raised" =>
              call.raised = call.outcomes[Len(call.outcomes)]

IsAnalyzePdfWithRetry(c) ==
    /\ c.impl = "module"
    /\ c.timed
    /\ c.max_attempts = 3
    /\ c.delay = 1
    /\ c.backoff = 2

\* C25: if the alarm fires while _analyze_pdf_with_retry is running, during
\* an attempt or during a backoff sleep, the call ends by raising
\* AnalysisTimeoutError and no further attempt is started; an attempt never
\* runs without an armed timeout.
C25_AlarmEndsTheCall ==
    IsAnalyzePdfWithRetry(call) =>
        /\ call.alarm_fired =>
              (call.state = "raised" /\ call.raised = "AnalysisTimeoutError")
        /\ call.state = "attempt" => call.alarm

\* the part of C25 that the code has: an alarm that fires during a backoff
\* sleep ends the call with AnalysisTimeoutError
C25_AlarmDuringSleep ==
    [][(IsAnalyzePdfWithRetry(call) /\ call.state = "sleep"
          /\ ~call.alarm_fired /\ call'.alarm_fired)
       => (call'.state = "raised"
             /\ call'.raised = "AnalysisTimeoutError")]_vars

\* C28: on every exit path of the timeout decorator the pending alarm is
\* cancelled and the SIGALRM handler installed before the call, the default
\* handler included, is installed again.
C28_SignalStateRestored ==
    (call.timed /\ call.state \in {"returned", "raised"}) =>
        /\ ~call.alarm
        /\ call.handler = call.handler_before

\* the same for the handlers other than the default one, and for timeout
C28_OtherHandlersRestored ==
    (call.timed /\ call.state \in {"returned", "raised"}
        /\ (call.impl = "utils" \/ call.handler_before # "SIG_DFL")) =>
        /\ ~call.alarm
        /\ call.handler = call.handler_before

\* C26: while the state is OPEN and less than the timeout has elapsed since
\* the last failure, a call raises the circuit-open error without invoking
\* the function and leaves state, failure_count and last_failure_time as
\* they were; once the timeout has elapsed the next call moves to HALF_OPEN
\* and invokes the function, which leads to CLOSED with failure_count = 0
\* on success and to OPEN on failure.
C26_OpenCircuit ==
    LET b == breaker.before
        elapsed == b.now - b.last_failure_time
    IN  /\ breaker.last_call = "rejected" => b.state = "OPEN"
        /\ (breaker.last_call # "none" /\ b.state = "OPEN") =>
              IF elapsed < breaker.timeout
              THEN /\ breaker.last_call = "rejected"
                   /\ breaker.phase = "ready"
                   /\ breaker.state = "OPEN"
                   /\ breaker.failure_count = b.failure_count
                   /\ breaker.last_failure_time = b.last_failure_time
              ELSE /\ breaker.last_call \in {"invoking", "returned", "raised"}
                   /\ breaker.last_call = "invoking" =>
                         breaker.state = "HALF_OPEN"
                   /\ breaker.last_call = "returned" =>
                         (breaker.state = "CLOSED"
                            /\ breaker.failure_count = 0)
                   /\ breaker.last_call = "raised" => breaker.state = "OPEN"

C26_Witness ==
    /\ breaker.before.state = "OPEN"
    /\ breaker.before.now - breaker.before.last_failure_time = breaker.timeout
    /\ breaker.last_call = "returned"
    /\ breaker.state = "CLOSED"

\* C27: in both implementations the circuit moves from CLOSED to OPEN only
\* after failure_threshold consecutive failures, and any successful call
\* resets failure_count to 0.
C27_ConsecutiveFailuresOpen ==
    /\ (breaker.last_call = "raised" /\ breaker.before.state = "CLOSED"
          /\ breaker.state = "OPEN") =>
          breaker.streak >= breaker.failure_threshold
    /\ breaker.last_call = "returned" => breaker.failure_count = 0

\* the same for the CircuitBreaker of docudots_module alone
C27_ModuleBreaker ==
    breaker.impl = "module" => C27_ConsecutiveFailuresOpen
====
